---- MODULE Spec2Model ----
(***************************************************************************)
(* A model of the views of cfgov/ask_cfpb/views.py                         *)
(*   annotate_links       parse answer HTML, number its links, add <sup>   *)
(*                        markers and return the footnotes                 *)
(*   redirect_ask_search  route a legacy knowledgebase query string        *)
(*   view_answer          serve, redirect or refuse an answer page         *)
(*   ask_search           search the answers, suggest another query        *)
(* and of the blocks of cfgov/v1/atomic_elements/organisms.py              *)
(*   InfoUnitGroup.clean, VideoPlayer.clean, RelatedPosts.related_posts,   *)
(*   ContactExpandableGroup.bulk_to_python.                                *)
(* Under Spec each behaviour is one call: Init draws the Site table and    *)
(* the call's input, the action of the called view computes its outcome.   *)
(* Under Concurrent several calls of the view helpers take their steps in  *)
(* any order, each on its own local values.                                *)
(*                                                                         *)
(* Strings the code takes apart (query text, facets, paths) are sequences  *)
(* of one-character strings.  An HTML text is the sequence of its tokens   *)
(* (start tag with its href, end tag, text).  A URL is the record of its   *)
(* urlparse components, its path being path.split('/').                    *)
(***************************************************************************)
EXTENDS Integers, Sequences, FiniteSets, TLC

VARIABLES sites, view, request, pc, soup, response

vars == <<sites, view, request, pc, soup, response>>

None == "None"

\* An optional value (an attribute that may be missing, the values of a
\* query-string key): <<>> when there is none, <<v>> when it is v.
Missing == <<>>

Some(v) == <<v>>

(* ----------------------------- bounds ---------------------------------- *)

\* most nodes (elements and texts) of an answer text
MaxNodes == 3

\* most facets of a query string
MaxFacets == 2

\* the calls that run at the same time
MaxCalls == 2

\* most info units of an info unit group
MaxUnits == 2

\* most filter pages of the page tree
MaxPosts == 2

\* most groups of a bulk conversion, and most expandables of a group
MaxGroups == 2

MaxExpandables == 2

(* ------------------------- sequence helpers ---------------------------- *)

Last(s) == s[Len(s)]

Front(s) == SubSeq(s, 1, Len(s) - 1)

RECURSIVE Filter(_, _)
\* the elements of s, in order, that are in set keep
Filter(s, keep) ==
    IF s = <<>> THEN <<>>
    ELSE (IF Head(s) \in keep THEN <<Head(s)>> ELSE <<>>) \o Filter(Tail(s), keep)

(* ------------------------------ URLs ----------------------------------- *)

\* urlparse(u): scheme, netloc, path (as path.split('/')), query, fragment
Url(scheme, netloc, path, query, fragment) ==
    [scheme |-> scheme, netloc |-> netloc, path |-> path,
     query |-> query, fragment |-> fragment]

EmptyUrl == Url("", "", <<"">>, "", "")

uses_relative == {"http", "https", "ftp", "file"}

uses_netloc == {"http", "https", "ftp", "file"}

RECURSIVE RemoveDots(_, _)
\* urljoin's loop over segments: '..' pops (ignored on an empty list),
\* '.' is dropped, anything else is appended
RemoveDots(segments, resolved_path) ==
    IF segments = <<>> THEN resolved_path
    ELSE LET seg == Head(segments) IN
         RemoveDots(Tail(segments),
                    IF seg = ".." THEN
                        (IF resolved_path = <<>> THEN <<>> ELSE Front(resolved_path))
                    ELSE IF seg = "." THEN resolved_path
                    ELSE Append(resolved_path, seg))

\* segments[1:-1] = filter(None, segments[1:-1])
DropInnerEmpty(segments) ==
    IF Len(segments) <= 2 THEN segments
    ELSE <<Head(segments)>>
         \o Filter(SubSeq(segments, 2, Len(segments) - 1),
                   {segments[i] : i \in 2..(Len(segments) - 1)} \ {""})
         \o <<Last(segments)>>

\* '/'.join(resolved_path) or '/'
JoinOrRoot(resolved_path) ==
    IF resolved_path = <<>> \/ resolved_path = <<"">> THEN <<"", "">>
    ELSE resolved_path

ResolvePath(bpath, path) ==
    LET base_parts == IF Last(bpath) # "" THEN Front(bpath) ELSE bpath
        segments   == IF Len(path) >= 2 /\ path[1] = ""
                      THEN path
                      ELSE DropInnerEmpty(base_parts \o path)
        resolved   == RemoveDots(segments, <<>>)
        resolved2  == IF Last(segments) \in {".", ".."}
                      THEN Append(resolved, "") ELSE resolved
    IN JoinOrRoot(resolved2)

\* urlunparse(...), parsed again: behind a netloc a path that is not empty
\* starts with '/'
urlunparse(scheme, netloc, path, query, fragment) ==
    Url(scheme, netloc,
        IF netloc # "" /\ path # <<"">> /\ path[1] # "" THEN <<"">> \o path ELSE path,
        query, fragment)

urljoin_keep(base, url) == url

\* urllib.parse.urljoin(base, url), on parsed URLs
urljoin(base, url) ==
    IF url = EmptyUrl THEN base
    ELSE LET scheme == IF url.scheme = "" THEN base.scheme ELSE url.scheme IN
         IF scheme # base.scheme \/ scheme \notin uses_relative THEN url
         ELSE IF scheme \in uses_netloc /\ url.netloc # ""
              THEN urlunparse(scheme, url.netloc, url.path, url.query, url.fragment)
         ELSE IF url.path = <<"">>
              THEN urlunparse(scheme, base.netloc, base.path,
                              IF url.query = "" THEN base.query ELSE url.query,
                              url.fragment)
         ELSE urlunparse(scheme, base.netloc, ResolvePath(base.path, url.path),
                         url.query, url.fragment)

(* --------------------------- the Site table ---------------------------- *)

Site(root_url, is_default_site) ==
    [root_url |-> root_url, is_default_site |-> is_default_site]

LocalRoot == Url("http", "localhost", <<"">>, "", "")

SecureRoot == Url("https", "www.example.org:8000", <<"">>, "", "")

\* the Site tables drawn: at most one site is the default site
SiteTables ==
    { {},
      {Site(SecureRoot, FALSE)},
      {Site(LocalRoot, TRUE)},
      {Site(SecureRoot, TRUE), Site(LocalRoot, FALSE)} }

(* --------------------------- HTML documents ---------------------------- *)

StartTag(name, href) == [t |-> "start", name |-> name, href |-> href]

EndTag(name) == [t |-> "end", name |-> name]

Text(string) == [t |-> "text", string |-> string]

\* href is Missing or Some(url); string is the text of a text node
Element(name, href) == [name |-> name, href |-> href, string |-> None]

TextNode(string) == [name |-> "#text", href |-> Missing, string |-> string]

\* A parsed document: node 1 is the BeautifulSoup object itself; nodes[i] is
\* the i-th object created, parent[i] its parent (0: none) and contents[i]
\* the sequence of its children.
EmptySoup ==
    [nodes |-> <<Element("[document]", Missing)>>, parent |-> <<0>>,
     contents |-> << <<>> >>]

\* a new, unattached object (soup.new_tag, the tree builder's object creation)
NewObject(doc, node) ==
    [nodes |-> Append(doc.nodes, node), parent |-> Append(doc.parent, 0),
     contents |-> Append(doc.contents, <<>>)]

\* Tag.insert(position, new_child) for an unattached new_child
Insert(doc, tag, position, new_child) ==
    LET c   == doc.contents[tag]
        pos == IF position > Len(c) THEN Len(c) ELSE position
    IN [doc EXCEPT !.contents[tag] =
                       SubSeq(c, 1, pos) \o <<new_child>> \o SubSeq(c, pos + 1, Len(c)),
                   !.parent[new_child] = tag]

\* Tag.append(new_child)
AppendChild(doc, tag, new_child) == Insert(doc, tag, Len(doc.contents[tag]), new_child)

\* Tag.index(element): the 0-based position of the child that is element
Index(doc, tag, element) ==
    (CHOOSE i \in 1..Len(doc.contents[tag]) : doc.contents[tag][i] = element) - 1

RECURSIVE TreeBuild(_, _, _)
\* the tree builder: a start tag opens a child of the innermost open
\* element, an end tag closes it, a text becomes a child of it
TreeBuild(doc, open, tokens) ==
    IF tokens = <<>> THEN doc
    ELSE LET tok == Head(tokens)
             id  == Len(doc.nodes) + 1
         IN IF tok.t = "start"
            THEN TreeBuild(AppendChild(NewObject(doc, Element(tok.name, tok.href)),
                                       Last(open), id),
                           Append(open, id), Tail(tokens))
            ELSE IF tok.t = "end"
            THEN TreeBuild(doc, Front(open), Tail(tokens))
            ELSE TreeBuild(AppendChild(NewObject(doc, TextNode(tok.string)),
                                       Last(open), id),
                           open, Tail(tokens))

\* bs(answer_text, 'lxml'): the lxml builder puts a fragment that starts with
\* an element inside <html><body>; an empty text gives an empty document
bs(answer_text) ==
    IF answer_text = <<>> THEN EmptySoup
    ELSE LET d1 == AppendChild(NewObject(EmptySoup, Element("html", Missing)), 1, 2)
             d2 == AppendChild(NewObject(d1, Element("body", Missing)), 2, 3)
         IN TreeBuild(d2, <<1, 2, 3>>, answer_text)

RECURSIVE Descendants(_, _)
RECURSIVE DescendantsOfAll(_, _)
\* Tag.descendants: the objects below tag, in document order
Descendants(doc, tag) == DescendantsOfAll(doc, doc.contents[tag])

DescendantsOfAll(doc, children) ==
    IF children = <<>> THEN <<>>
    ELSE <<Head(children)>> \o Descendants(doc, Head(children))
         \o DescendantsOfAll(doc, Tail(children))

\* soup.findAll(name)
findAll(doc, name) ==
    Filter(Descendants(doc, 1), {i \in 1..Len(doc.nodes) : doc.nodes[i].name = name})

RECURSIVE Decode(_, _)
RECURSIVE DecodeAll(_, _)
\* str(tag): the markup of the object
Decode(doc, id) ==
    LET node == doc.nodes[id] IN
    IF node.name = "#text" THEN <<Text(node.string)>>
    ELSE IF node.name = "[document]" THEN DecodeAll(doc, doc.contents[id])
    ELSE <<StartTag(node.name, node.href)>> \o DecodeAll(doc, doc.contents[id])
         \o <<EndTag(node.name)>>

DecodeAll(doc, children) ==
    IF children = <<>> THEN <<>>
    ELSE Decode(doc, Head(children)) \o DecodeAll(doc, Tail(children))

str(doc) == Decode(doc, 1)

\* the value of soup while no document has been parsed
NoSoup == [nodes |-> <<>>, parent |-> <<>>, contents |-> <<>>]

(* ---------------------------- outcomes --------------------------------- *)

Raise(exception) == [raised |-> exception, returned |-> <<>>]

Return(value) == [raised |-> "", returned |-> <<value>>]

(* --------------------------- annotate_links ---------------------------- *)

get_any_site(table) == table

\* Site.objects.get(is_default_site=True): the rows that match
get_default_site(table) == {s \in table : s.is_default_site}

NoHrefOnlyMissing(doc, link) == doc.nodes[link].href = Missing

\* not link.get('href')
NoHref(doc, link) ==
    doc.nodes[link].href = Missing \/ doc.nodes[link].href = Some(EmptyUrl)

SupPositionBefore(link_location) == link_location

\* the position the <sup> is inserted at: link_location + 1
SupPosition(link_location) == link_location + 1

NextIndexStuck(index) == index

\* index += 1
NextIndex(index) == index + 1

SkipLinkCounts(st) == [st EXCEPT !.index = @ + 1]

\* continue: the link is passed over; st is [soup, footnotes, index]
SkipLink(st) == st

\* lines 37-44: the footnote and the <sup> of a link that has an href
AnnotateLink(_site, st, link) ==
    LET href          == st.soup.nodes[link].href[1]
        parent        == st.soup.parent[link]
        link_location == Index(st.soup, parent, link)
        super_tag     == Len(st.soup.nodes) + 1
        d1            == NewObject(st.soup, Element("sup", Missing))
        d2            == AppendChild(NewObject(d1, TextNode(ToString(st.index))),
                                     super_tag, super_tag + 1)
    IN [soup      |-> Insert(d2, parent, SupPosition(link_location), super_tag),
        footnotes |-> Append(st.footnotes,
                             <<st.index, urljoin(_site.root_url, href)>>),
        index     |-> NextIndex(st.index)]

\* one pass of the loop over links
LoopBody(_site, st, link) ==
    IF NoHref(st.soup, link) THEN SkipLink(st) ELSE AnnotateLink(_site, st, link)

RECURSIVE Loop(_, _, _)
Loop(_site, st, links) ==
    IF links = <<>> THEN st
    ELSE Loop(_site, LoopBody(_site, st, Head(links)), Tail(links))

\* the state of annotate_links(answer_text) at its return statement
Annotated(_site, answer_text) ==
    LET soup0 == bs(answer_text)
        links == findAll(soup0, "a")
    IN Loop(_site, [soup |-> soup0, footnotes |-> <<>>, index |-> 1], links)

annotate_links ==
    /\ pc = "request"
    /\ view = "annotate_links"
    /\ pc' = "response"
    /\ IF get_default_site(sites) = {}
       THEN /\ response' = Raise("RuntimeError")
            /\ soup' = soup
       ELSE LET _site == CHOOSE s \in get_default_site(sites) : TRUE
                st    == Annotated(_site, request.answer_text)
            IN /\ soup' = st.soup
               /\ response' = Return(<<str(st.soup), st.footnotes>>)
    /\ UNCHANGED <<sites, view, request>>

(* ------------------------------ strings -------------------------------- *)
\* A string is the sequence of its characters.

UpperCase ==
    <<"A", "B", "C", "D", "E", "F", "G", "H", "I", "J", "K", "L", "M",
      "N", "O", "P", "Q", "R", "S", "T", "U", "V", "W", "X", "Y", "Z">>

LowerCase ==
    <<"a", "b", "c", "d", "e", "f", "g", "h", "i", "j", "k", "l", "m",
      "n", "o", "p", "q", "r", "s", "t", "u", "v", "w", "x", "y", "z">>

Digits == {"0", "1", "2", "3", "4", "5", "6", "7", "8", "9"}

\* the characters \s matches and str.strip() removes
Whitespace == {" ", "\t", "\n"}

\* the characters \w matches
WordChars ==
    {UpperCase[i] : i \in 1..26} \cup {LowerCase[i] : i \in 1..26} \cup Digits \cup {"_"}

\* c.lower()
Lower(c) ==
    IF \E i \in 1..26 : UpperCase[i] = c
    THEN LowerCase[CHOOSE i \in 1..26 : UpperCase[i] = c]
    ELSE c

RECURSIVE LStrip(_)
LStrip(s) == IF s # <<>> /\ Head(s) \in Whitespace THEN LStrip(Tail(s)) ELSE s

RECURSIVE RStrip(_)
RStrip(s) == IF s # <<>> /\ Last(s) \in Whitespace THEN RStrip(Front(s)) ELSE s

strip_nothing(s) == s

\* s.strip()
strip(s) == RStrip(LStrip(s))

\* s.startswith(prefix)
StartsWith(s, prefix) ==
    Len(prefix) <= Len(s) /\ SubSeq(s, 1, Len(prefix)) = prefix

\* sub in s
Contains(s, sub) ==
    \E i \in 0..(Len(s) - Len(sub)) : SubSeq(s, i + 1, i + Len(sub)) = sub

RECURSIVE Replace(_, _, _)
\* s.replace(old, new), for a non-empty old
Replace(s, old, new) ==
    IF s = <<>> THEN <<>>
    ELSE IF StartsWith(s, old)
         THEN new \o Replace(SubSeq(s, Len(old) + 1, Len(s)), old, new)
         ELSE <<Head(s)>> \o Replace(Tail(s), old, new)

RECURSIVE MapLower(_)
\* s.lower()
MapLower(s) == IF s = <<>> THEN <<>> ELSE <<Lower(Head(s))>> \o MapLower(Tail(s))

RECURSIVE CollapseDashes(_)
\* re.sub(r'[-\s]+', '-', s)
CollapseDashes(s) ==
    IF s = <<>> THEN <<>>
    ELSE IF Head(s) \in Whitespace \cup {"-"}
         THEN IF Len(s) > 1 /\ s[2] \in Whitespace \cup {"-"}
              THEN CollapseDashes(Tail(s))
              ELSE <<"-">> \o CollapseDashes(Tail(s))
         ELSE <<Head(s)>> \o CollapseDashes(Tail(s))

RECURSIVE StripChars(_, _)
\* s.strip(chars)
StripChars(s, chars) ==
    IF s # <<>> /\ Head(s) \in chars THEN StripChars(Tail(s), chars)
    ELSE IF s # <<>> /\ Last(s) \in chars THEN StripChars(Front(s), chars)
    ELSE s

\* django's slugify (Django 3.2, the version of the migrations) on ASCII
\* text: re.sub(r'[^\w\s-]', '', value.lower()), then
\* re.sub(r'[-\s]+', '-', value).strip('-_')
slugify(value) ==
    LET kept == Filter(MapLower(value), WordChars \cup Whitespace \cup {"-"})
    IN StripChars(CollapseDashes(kept), {"-", "_"})

(* ------------------------- redirect_ask_search ------------------------- *)

\* 'category_exact:'
category_facet ==
    <<"c", "a", "t", "e", "g", "o", "r", "y", "_", "e", "x", "a", "c",
      "t", ":">>

\* 'audience_exact:'
audience_facet ==
    <<"a", "u", "d", "i", "e", "n", "c", "e", "_", "e", "x", "a", "c",
      "t", ":">>

\* 'tag_exact:'
tag_facet == <<"t", "a", "g", "_", "e", "x", "a", "c", "t", ":">>

\* '/ask-cfpb/search/'
SearchPath ==
    <<"/", "a", "s", "k", "-", "c", "f", "p", "b", "/", "s", "e", "a",
      "r", "c", "h", "/">>

\* '/ask-cfpb/search/?q='
SearchQueryPath ==
    <<"/", "a", "s", "k", "-", "c", "f", "p", "b", "/", "s", "e", "a",
      "r", "c", "h", "/", "?", "q", "=">>

\* '/ask-cfpb/category-'
CategoryPathEn ==
    <<"/", "a", "s", "k", "-", "c", "f", "p", "b", "/", "c", "a", "t",
      "e", "g", "o", "r", "y", "-">>

\* '/es/obtener-respuestas/categoria-'
CategoryPathEs ==
    <<"/", "e", "s", "/", "o", "b", "t", "e", "n", "e", "r", "-", "r",
      "e", "s", "p", "u", "e", "s", "t", "a", "s", "/", "c", "a",
      "t", "e", "g", "o", "r", "i", "a", "-">>

\* '/ask-cfpb/audience-'
AudiencePath ==
    <<"/", "a", "s", "k", "-", "c", "f", "p", "b", "/", "a", "u", "d",
      "i", "e", "n", "c", "e", "-">>

\* '/ask-cfpb/search-by-tag/'
TagPathEn ==
    <<"/", "a", "s", "k", "-", "c", "f", "p", "b", "/", "s", "e", "a",
      "r", "c", "h", "-", "b", "y", "-", "t", "a", "g", "/">>

\* '/es/obtener-respuestas/buscar-por-etiqueta/'
TagPathEs ==
    <<"/", "e", "s", "/", "o", "b", "t", "e", "n", "e", "r", "-", "r",
      "e", "s", "p", "u", "e", "s", "t", "a", "s", "/", "b", "u",
      "s", "c", "a", "r", "-", "p", "o", "r", "-", "e", "t", "i",
      "q", "u", "e", "t", "a", "/">>

\* django.shortcuts.redirect(to, permanent=...)
redirect(to, permanent) ==
    Return([status_code |-> IF permanent THEN 301 ELSE 302, location |-> to])

\* QueryDict.get(key): the last value of the key, None without one
Get(GET, key) == IF GET[key] = <<>> THEN Missing ELSE Some(Last(GET[key]))

\* QueryDict.getlist(key)
GetList(GET, key) == GET[key]

TruthyNotNone(value) == value # Missing

\* the truth value of an optional string: None and '' are false
Truthy(value) == value # Missing /\ value[1] # <<>>

redirect_search_always_query(querystring) ==
    redirect(SearchQueryPath \o querystring, TRUE)

\* lines 174-178: the redirect for the stripped query
redirect_search(querystring) ==
    IF querystring = <<>> THEN redirect(SearchPath, TRUE)
    ELSE redirect(SearchQueryPath \o querystring, TRUE)

NoFacetsOnlyEmptyList(facets) == facets = <<>>

NoFacetsNever(facets) == FALSE

\* not facets or not facets[0]
NoFacets(facets) == facets = <<>> \/ facets[1] = <<>>

redirect_to_category_english(category, language) ==
    redirect(CategoryPathEn \o category \o <<"/">>, TRUE)

redirect_to_category(category, language) ==
    IF language = "es" THEN redirect(CategoryPathEs \o category \o <<"/">>, TRUE)
    ELSE redirect(CategoryPathEn \o category \o <<"/">>, TRUE)

redirect_to_audience_temporary(audience) ==
    redirect(AudiencePath \o audience \o <<"/">>, FALSE)

redirect_to_audience(audience) == redirect(AudiencePath \o audience \o <<"/">>, TRUE)

redirect_to_tag(tag, language) ==
    IF language = "es" THEN redirect(TagPathEs \o tag \o <<"/">>, TRUE)
    ELSE redirect(TagPathEn \o tag \o <<"/">>, TRUE)

RECURSIVE FacetValueFirstOnly(_, _)
FacetValueFirstOnly(facets, facet_type) ==
    IF facets = <<>> THEN Missing
    ELSE IF Contains(Head(facets), facet_type)
         THEN IF Replace(Head(facets), facet_type, <<>>) # <<>>
              THEN Some(Replace(Head(facets), facet_type, <<>>))
              ELSE Missing
         ELSE FacetValueFirstOnly(Tail(facets), facet_type)

RECURSIVE FacetValueAcceptsEmpty(_, _)
FacetValueAcceptsEmpty(facets, facet_type) ==
    IF facets = <<>> THEN Missing
    ELSE IF Contains(Head(facets), facet_type)
         THEN Some(Replace(Head(facets), facet_type, <<>>))
         ELSE FacetValueAcceptsEmpty(Tail(facets), facet_type)

RECURSIVE FacetValue(_, _)
\* one of the three loops over facets: the value facet.replace(facet_type, '')
\* of the first facet that holds facet_type and whose value is not empty
FacetValue(facets, facet_type) ==
    IF facets = <<>> THEN Missing
    ELSE LET facet == Head(facets)
             value == Replace(facet, facet_type, <<>>)
         IN IF Contains(facet, facet_type) /\ value # <<>> THEN Some(value)
            ELSE FacetValue(Tail(facets), facet_type)

NoFacetMatchedReturnsNone == Raise("ValueError")

\* line 239: raise Http404
NoFacetMatched == Raise("Http404")

audience_plus_dropped(audience_raw) == slugify(audience_raw)

\* line 226: audience = slugify(audience_raw.replace('+', '-'))
audience(audience_raw) == slugify(Replace(audience_raw, <<"+">>, <<"-">>))

tag_spaces_only(raw_tag) == Replace(raw_tag, <<" ">>, <<"_">>)

\* lines 233-236: tag = raw_tag.replace(' ', '_').replace('%20', '_')
\*                                                .replace('+', '_')
tag(raw_tag) ==
    Replace(Replace(Replace(raw_tag, <<" ">>, <<"_">>),
                    <<"%", "2", "0">>, <<"_">>),
            <<"+">>, <<"_">>)

RECURSIVE redirect_by_facet_list_order(_, _)
redirect_by_facet_list_order(facets, language) ==
    IF facets = <<>> THEN NoFacetMatched
    ELSE LET facet == <<Head(facets)>>
             category     == FacetValue(facet, category_facet)
             audience_raw == FacetValue(facet, audience_facet)
             raw_tag      == FacetValue(facet, tag_facet)
         IN IF category # Missing
            THEN redirect_to_category(slugify(category[1]), language)
            ELSE IF audience_raw # Missing
            THEN redirect_to_audience(audience(audience_raw[1]))
            ELSE IF raw_tag # Missing
            THEN redirect_to_tag(tag(raw_tag[1]), language)
            ELSE redirect_by_facet_list_order(Tail(facets), language)

\* lines 215-239: the three loops, then Http404
redirect_by_facet(facets, language) ==
    LET category     == FacetValue(facets, category_facet)
        audience_raw == FacetValue(facets, audience_facet)
        raw_tag      == FacetValue(facets, tag_facet)
    IN IF category # Missing
       THEN redirect_to_category(slugify(category[1]), language)
       ELSE IF audience_raw # Missing
       THEN redirect_to_audience(audience(audience_raw[1]))
       ELSE IF raw_tag # Missing
       THEN redirect_to_tag(tag(raw_tag[1]), language)
       ELSE NoFacetMatched

\* the outcome of redirect_ask_search(request, language)
redirect_ask_search_outcome(GET, language) ==
    IF Truthy(Get(GET, "q"))
    THEN redirect_search(strip(Get(GET, "q")[1]))
    ELSE LET facets == GetList(GET, "selected_facets")
         IN IF NoFacets(facets) THEN redirect(SearchPath, TRUE)
            ELSE redirect_by_facet(facets, language)

redirect_ask_search ==
    /\ pc = "request"
    /\ view = "redirect_ask_search"
    /\ pc' = "response"
    /\ response' = redirect_ask_search_outcome(request.GET, request.language)
    /\ UNCHANGED <<sites, view, request, soup>>

(* ------------------------- InfoUnitGroup.clean ------------------------- *)
\* A block value is the record of its child values.  A rich text is its
\* source, a chosen image is its name and None when there is none.

\* bool(x) of a string or None
bool(x) == x # None /\ x # ""

\* raise ValidationError(message, params={key: ErrorList([error]), ...}):
\* params is the set of its <<key, error>> pairs
ValidationError(message, params) ==
    [raised |-> "ValidationError", returned |-> <<>>,
     message |-> message, params |-> params]

\* lines 65-70: the choices of format
format_choices == {"50-50", "33-33-33", "25-75"}

\* line 121: StructBlock.clean cleans every child and raises with the
\* children that failed; format is a required choice
super_clean(value) ==
    IF value.format \notin format_choices
    THEN ValidationError("Validation error in StructBlock",
                         {<<"format", "This field is required.">>})
    ELSE Return(value)

IntroAlways(cleaned) == bool(cleaned.intro)

\* line 124: cleaned.get('intro') and not cleaned.get('heading')
IntroWithoutHeading(cleaned) == bool(cleaned.intro) /\ ~bool(cleaned.heading)

EveryUnitWithoutImage(cleaned) ==
    /\ cleaned.info_units # <<>>
    /\ \A i \in 1..Len(cleaned.info_units) : ~bool(cleaned.info_units[i].image.upload)

\* lines 135-136: some unit of info_units has no image upload
UnitWithoutImage(cleaned) ==
    \E i \in 1..Len(cleaned.info_units) : ~bool(cleaned.info_units[i].image.upload)

\* lines 120-149: the outcome of InfoUnitGroup.clean(value)
InfoUnitGroup_clean_outcome(value) ==
    IF super_clean(value).raised # "" THEN super_clean(value)
    ELSE LET cleaned == super_clean(value).returned[1]
         IN IF IntroWithoutHeading(cleaned)
            THEN ValidationError(
                     "Validation error in InfoUnitGroup: intro with no heading",
                     {<<"heading", "Required if paragraph is not empty.">>})
            ELSE IF cleaned.format = "25-75" /\ UnitWithoutImage(cleaned)
            THEN ValidationError(
                     "Validation error in InfoUnitGroup: 25-75 with no image",
                     {<<"format", "Info units must include images.">>})
            ELSE Return(cleaned)

InfoUnitGroup_clean ==
    /\ pc = "request"
    /\ view = "InfoUnitGroup.clean"
    /\ pc' = "response"
    /\ response' = InfoUnitGroup_clean_outcome(request.value)
    /\ UNCHANGED <<sites, view, request, soup>>

(* --------------------------- VideoPlayer.clean ------------------------- *)

\* line 875: the regex ^[\w-]{11}$ of video_id
ValidVideoId(video_id) ==
    /\ Len(video_id) = 11
    /\ \A i \in 1..Len(video_id) : video_id[i] \in WordChars \cup {"-"}

\* line 892: StructBlock.clean cleans every child and raises with the
\* children that failed; a video_id that is not empty has to match the regex
VideoPlayer_super_clean(value) ==
    IF value.video_id # <<>> /\ ~ValidVideoId(value.video_id)
    THEN ValidationError("Validation error in StructBlock",
                         {<<"video_id", "The YouTube video ID is in the wrong format.">>})
    ELSE Return(value)

\* line 897: getattr(self.meta, 'required', True)
meta_required(meta) == IF meta.required = Missing THEN TRUE ELSE meta.required[1]

video_player_errors_both(cleaned, meta) ==
    IF cleaned.video_id # <<>> THEN {}
    ELSE (IF meta_required(meta)
          THEN {<<"video_id", "This field is required.">>} ELSE {})
         \cup
         (IF bool(cleaned.thumbnail_image)
          THEN {<<"thumbnail_image",
                  "This field should not be used if YouTube video ID is not set.">>}
          ELSE {})

\* lines 894-907: the errors dict
video_player_errors(cleaned, meta) ==
    IF cleaned.video_id # <<>> THEN {}
    ELSE IF meta_required(meta)
    THEN {<<"video_id", "This field is required.">>}
    ELSE IF bool(cleaned.thumbnail_image)
    THEN {<<"thumbnail_image",
            "This field should not be used if YouTube video ID is not set.">>}
    ELSE {}

\* lines 891-915: the outcome of VideoPlayer.clean(value) on a block of meta
VideoPlayer_clean_outcome(value, meta) ==
    IF VideoPlayer_super_clean(value).raised # "" THEN VideoPlayer_super_clean(value)
    ELSE LET cleaned == VideoPlayer_super_clean(value).returned[1]
             errors  == video_player_errors(cleaned, meta)
         IN IF errors # {}
            THEN ValidationError("Validation error in VideoPlayer", errors)
            ELSE Return(cleaned)

VideoPlayer_clean ==
    /\ pc = "request"
    /\ view = "VideoPlayer.clean"
    /\ pc' = "response"
    /\ response' = VideoPlayer_clean_outcome(request.value, request.meta)
    /\ UNCHANGED <<sites, view, request, soup>>

(* --------------------- RelatedPosts.related_posts ---------------------- *)
\* The filter pages of the page tree are db.posts, newest first (the order
\* of '-date_published'); a page is known by its place in it, its id.  A post
\* is the record of the slug of its parent page, its tags, its category
\* names and whether it is live.  A queryset is the sequence of the ids it
\* yields.

\* int(s) of a string of characters: blanks around it, a sign, digits
IsInt(s) ==
    LET t      == strip(s)
        digits == IF t # <<>> /\ Head(t) \in {"+", "-"} THEN Tail(t) ELSE t
    IN digits # <<>> /\ \A i \in 1..Len(digits) : digits[i] \in Digits

DigitValue(c) == CHOOSE n \in 0..9 : ToString(n) = c

RECURSIVE Decimal(_)
Decimal(digits) ==
    IF digits = <<>> THEN 0 ELSE 10 * Decimal(Front(digits)) + DigitValue(Last(digits))

int(s) ==
    LET t == strip(s)
    IN IF Head(t) = "-" THEN 0 - Decimal(Tail(t))
       ELSE IF Head(t) = "+" THEN Decimal(Tail(t))
       ELSE Decimal(t)

\* parent.title()
title(parent) ==
    CASE parent = "blog" -> "Blog"
      [] parent = "newsroom" -> "Newsroom"
      [] parent = "events" -> "Events"

RECURSIVE Select(_, _)
\* the ids of ids that are in the set keep, in their order
Select(ids, keep) ==
    IF ids = <<>> THEN <<>>
    ELSE (IF Head(ids) \in keep THEN <<Head(ids)>> ELSE <<>>) \o Select(Tail(ids), keep)

\* lines 325-333: the types the value relates, in the order blog, newsroom,
\* events
related_types(value) ==
    (IF value.relate_posts THEN <<"blog">> ELSE <<>>)
        \o (IF value.relate_newsroom THEN <<"newsroom">> ELSE <<>>)
        \o (IF value.relate_events THEN <<"events">> ELSE <<>>)

\* lines 339-340: the live filter pages but the page itself, newest first
live_queryset(db, page) ==
    Select([i \in 1..Len(db.posts) |-> i],
           {i \in 1..Len(db.posts) : db.posts[i].live /\ i # page.id})

\* ref.get_appropriate_categories: the specific categories that belong to
\* the page type
get_appropriate_categories(specific_categories, page_type) ==
    {c \in specific_categories : c[1] = page_type}

\* lines 344-360: the pages the filters of a type let through
filters(db, page, value, parent) ==
    LET tagged(slug) == {i \in 1..Len(db.posts) :
                            /\ db.posts[i].parent = slug
                            /\ db.posts[i].tags \cap page.tags # {}}
        categories   == get_appropriate_categories(value.specific_categories, parent)
        children     == tagged(parent)
                            \cup (IF parent = "events"
                                  THEN tagged("archive-past-events") ELSE {})
    IN IF value.specific_categories # {} /\ categories # {}
       THEN {i \in children : db.posts[i].categories \cap categories # {}}
       ELSE children

\* lines 319-323: the pages of the queryset that have every tag of the page
match_all_topic_tags(db, queryset, page_tags) ==
    Select(queryset, {i \in 1..Len(db.posts) : page_tags \subseteq db.posts[i].tags})

\* lines 362-367: related_queryset before it is sliced
related_queryset(db, page, value, parent) ==
    LET filtered == Select(live_queryset(db, page), filters(db, page, value, parent))
    IN IF value.and_filtering
       THEN match_all_topic_tags(db, filtered, page.tags)
       ELSE filtered

\* s[:limit] of a list
slice(s, limit) ==
    IF limit >= 0
    THEN SubSeq(s, 1, IF limit < Len(s) THEN limit ELSE Len(s))
    ELSE SubSeq(s, 1, IF Len(s) + limit > 0 THEN Len(s) + limit ELSE 0)

\* lines 344-369: what one pass of the loop raises, '' when nothing:
\* Page.objects.get(slug=...) of a page that is not there, and the slice of
\* a QuerySet by a negative limit
pass_raises(db, value, parent, limit) ==
    IF parent \notin db.slugs THEN "DoesNotExist"
    ELSE IF parent = "events" /\ "archive-past-events" \notin db.slugs
    THEN "DoesNotExist"
    ELSE IF ~value.and_filtering /\ limit < 0 THEN "AssertionError"
    ELSE ""

RECURSIVE loop_raises(_, _, _, _)
\* what the loop over related_types raises first
loop_raises(db, value, types, limit) ==
    IF types = <<>> THEN ""
    ELSE IF pass_raises(db, value, Head(types), limit) # ""
    THEN pass_raises(db, value, Head(types), limit)
    ELSE loop_raises(db, value, Tail(types), limit)

\* line 369: related_items[parent.title()] = related_queryset[:limit]
related_items(db, page, value, parent) ==
    slice(related_queryset(db, page, value, parent), int(value.limit))

\* lines 313-373: the outcome of related_posts(page, value); the dict is the
\* function of its keys
related_posts_outcome(db, page, value) ==
    LET types == related_types(value)
    IN IF types = <<>> THEN Return(<<>>)
       ELSE IF ~IsInt(value.limit) THEN Raise("ValueError")
       ELSE IF loop_raises(db, value, types, int(value.limit)) # ""
       THEN Raise(loop_raises(db, value, types, int(value.limit)))
       ELSE LET kept == {types[i] : i \in {j \in 1..Len(types) :
                            related_items(db, page, value, types[j]) # <<>>}}
            IN Return([key \in {title(parent) : parent \in kept} |->
                          related_items(db, page, value,
                                        CHOOSE parent \in kept : title(parent) = key)])

related_posts ==
    /\ pc = "request"
    /\ view = "RelatedPosts.related_posts"
    /\ pc' = "response"
    /\ response' = related_posts_outcome(request.db, request.page, request.value)
    /\ UNCHANGED <<sites, view, request, soup>>

(* ----------------------------- view_answer ----------------------------- *)
\* An AnswerPage is the record of the fields the view reads: language, the
\* id of its answer_base, live, redirect_to_page (Missing or Some(page)),
\* slug and url.  request.pages is the AnswerPage table, request.sharing_site
\* what SharingSite.find_for_request finds (Missing when it raises
\* DoesNotExist) and request.routed the page ServeView.route finds for
\* request.path in the sharing site (Missing when it raises Http404).

\* the characters of a language code
LanguageCode(language) == IF language = "es" THEN <<"e", "s">> ELSE <<"e", "n">>

\* lines 49-50: the rows get_object_or_404 looks among; answer_id is the
\* string of digits of the URL
answer_pages(pages, language, answer_id) ==
    {p \in pages : p.language = language /\ p.answer_base_id = int(answer_id)}

\* line 56: "{}-{}-{}".format(slug, language, answer_id)
format_slug(slug, language, answer_id) ==
    slug \o <<"-">> \o LanguageCode(language) \o <<"-">> \o answer_id

\* page.serve(request)
serve(page) == Return([served |-> page, by |-> "Page.serve"])

\* lines 67-73: ServeView.route and ServeView.serve on the sharing site
serve_shared(sharing_site, routed) ==
    IF routed = Missing THEN Raise("Http404")
    ELSE Return([served |-> routed[1], by |-> "ServeView.serve",
                 site |-> sharing_site.site])

not_live_after_redirects(answer_page) ==
    answer_page.live = FALSE /\ answer_page.redirect_to_page = Missing

\* line 51: answer_page.live is False
not_live(answer_page) == answer_page.live = FALSE

slug_differs_never(answer_page, slug, language, answer_id) == FALSE

\* line 56
slug_differs(answer_page, slug, language, answer_id) ==
    format_slug(slug, language, answer_id) # answer_page.slug

\* lines 62-73: the page is served by itself or through the sharing site
serve_answer(answer_page, sharing_site, routed) ==
    IF sharing_site = Missing THEN serve(answer_page)
    ELSE serve_shared(sharing_site[1], routed)

\* lines 48-73: the outcome of view_answer(request, slug, language, answer_id)
view_answer_outcome(request_, slug, language, answer_id) ==
    LET found == answer_pages(request_.pages, language, answer_id)
    IN IF found = {} THEN Raise("Http404")
       ELSE IF Cardinality(found) > 1 THEN Raise("MultipleObjectsReturned")
       ELSE LET answer_page == CHOOSE p \in found : TRUE
            IN IF not_live(answer_page) THEN Raise("Http404")
               ELSE IF answer_page.redirect_to_page # Missing
               THEN redirect(answer_page.redirect_to_page[1].url, TRUE)
               ELSE IF slug_differs(answer_page, slug, language, answer_id)
               THEN redirect(answer_page.url, TRUE)
               ELSE serve_answer(answer_page, request_.sharing_site, request_.routed)

view_answer ==
    /\ pc = "request"
    /\ view = "view_answer"
    /\ pc' = "response"
    /\ response' = view_answer_outcome(request, request.slug, request.language,
                                       request.answer_id)
    /\ UNCHANGED <<sites, view, request, soup>>

(* ------------------------------ ask_search ----------------------------- *)
\* request.results_pages is the AnswerResultsPage table, request.hits what
\* the search index holds for the search term and request.suggested the
\* AskSearch object after suggest().  The outcome carries calls, the calls
\* the view has made in their order.

\* lines 79-82: language_map
language_map(language) == IF language = "es" THEN "respuestas" ELSE "ask-cfpb-search-results"

\* AskSearch(search_term=search_term, language=language)
AskSearch(search_term, language, hits) ==
    [search_term |-> search_term, language |-> language,
     queryset |-> hits, suggestion |-> None]

\* search.suggest(request=request)
suggest(search, suggested) ==
    [search EXCEPT !.search_term = suggested.search_term,
                   !.queryset = suggested.queryset,
                   !.suggestion = suggested.suggestion]

WithCalls(outcome, calls) ==
    [raised |-> outcome.raised, returned |-> outcome.returned, calls |-> calls]

has_facets_and_no_query(GET) ==
    GetList(GET, "selected_facets") # <<>> /\ Get(GET, "q") = Missing

\* line 77: 'selected_facets' in request.GET: the key has a value
has_facets(GET) == GetList(GET, "selected_facets") # <<>>

\* line 91: not search_term
no_search_term(search_term) == search_term = <<>>

\* line 97: search.queryset.count() == 0
no_results(search) == Len(search.queryset) = 0

\* lines 100-114 and 116-123: the response made from the search; the JSON
\* text is the record of what it holds
search_response(results_page, search_term, search, as_json) ==
    IF as_json
    THEN Return([content_type |-> "application/json",
                 content |-> [query |-> search_term,
                              result_query |-> search.search_term,
                              suggestion |-> search.suggestion,
                              results |-> [i \in 1..Len(search.queryset) |->
                                  [question |-> search.queryset[i].autocomplete,
                                   url |-> search.queryset[i].url,
                                   text |-> search.queryset[i].text,
                                   preview |-> search.queryset[i].preview]]]])
    ELSE serve([results_page EXCEPT
                   !.query = search_term,
                   !.result_query = search.search_term,
                   !.suggestion = search.suggestion,
                   !.answers = [i \in 1..Len(search.queryset) |->
                                   <<search.queryset[i].url,
                                     search.queryset[i].autocomplete,
                                     search.queryset[i].preview>>]])

\* lines 76-124: the outcome of ask_search(request, language, as_json)
ask_search_outcome(request_, language, as_json) ==
    LET GET         == request_.GET
        found       == {p \in request_.results_pages :
                           p.language = language /\ p.slug = language_map(language)}
        search_term == IF Get(GET, "q") = Missing THEN <<>> ELSE Get(GET, "q")[1]
        search      == AskSearch(search_term, language, request_.hits)
    IN IF has_facets(GET)
       THEN WithCalls(redirect_ask_search_outcome(GET, language), <<"redirect_ask_search">>)
       ELSE IF found = {}
       THEN WithCalls(Raise("Http404"), <<"get_object_or_404">>)
       ELSE LET results_page == CHOOSE p \in found : TRUE
            IN IF no_search_term(search_term)
               THEN WithCalls(serve([results_page EXCEPT !.query = <<>>,
                                                         !.result_query = <<>>]),
                              <<"get_object_or_404", "serve">>)
               ELSE IF no_results(search)
               THEN WithCalls(search_response(results_page, search_term,
                                              suggest(search, request_.suggested),
                                              as_json),
                              <<"get_object_or_404", "AskSearch", "suggest",
                                IF as_json THEN "HttpResponse" ELSE "serve">>)
               ELSE WithCalls(search_response(results_page, search_term, search, as_json),
                              <<"get_object_or_404", "AskSearch",
                                IF as_json THEN "HttpResponse" ELSE "serve">>)

ask_search ==
    /\ pc = "request"
    /\ view = "ask_search"
    /\ pc' = "response"
    /\ response' = ask_search_outcome(request, request.language, request.as_json)
    /\ UNCHANGED <<sites, view, request, soup>>

(* ---------------- ContactExpandableGroup.bulk_to_python ---------------- *)
\* A raw group value is the record of its heading and its expandables, a
\* raw expandable the record of the id of its contact.  request.contacts is
\* the Contact table.

\* blocks.StructValue(self, value)
StructValue(block, value) == [block |-> block, value |-> value]

\* contact_model.objects.in_bulk(ids).get(id): the contact of the id,
\* Missing (None) when there is none
contacts_by_id_get(contacts, id) ==
    IF \E c \in contacts : c.id = id
    THEN Some(CHOOSE c \in contacts : c.id = id)
    ELSE Missing

\* lines 680-690: ContactExpandable.bulk_to_python(values)
ContactExpandable_bulk_to_python(contacts, values) ==
    [i \in 1..Len(values) |->
        StructValue("ContactExpandable",
                    [values[i] EXCEPT !.contact = contacts_by_id_get(contacts, @)])]

RECURSIVE chain(_)
\* lines 697-699: list(itertools.chain(*lists))
chain(lists) == IF lists = <<>> THEN <<>> ELSE Head(lists) \o chain(Tail(lists))

\* s[start:stop] of a list, for start and stop that are not negative
list_slice(s, start, stop) ==
    IF start >= Len(s) \/ stop <= start THEN <<>>
    ELSE SubSeq(s, start + 1, IF stop < Len(s) THEN stop ELSE Len(s))

next_index_by_one(index, value_count) == index + 1

\* line 708: index += value_count
next_index(index, value_count) == index + value_count

RECURSIVE regroup(_, _, _)
\* lines 704-708: the loop that gives every value its slice of contacts
regroup(values, contacts, index) ==
    IF values = <<>> THEN <<>>
    ELSE LET value       == Head(values)
             value_count == Len(value.expandables)
         IN <<[value EXCEPT !.expandables =
                   list_slice(contacts, index, index + value_count)]>>
                \o regroup(Tail(values), contacts, next_index(index, value_count))

\* lines 696-710: ContactExpandableGroup.bulk_to_python(values)
ContactExpandableGroup_bulk_to_python(contact_table, values) ==
    LET contact_expandable_values ==
            chain([i \in 1..Len(values) |-> values[i].expandables])
        contacts == ContactExpandable_bulk_to_python(contact_table,
                                                     contact_expandable_values)
        regrouped == regroup(values, contacts, 0)
    IN [i \in 1..Len(regrouped) |-> StructValue("ContactExpandableGroup", regrouped[i])]

bulk_to_python ==
    /\ pc = "request"
    /\ view = "ContactExpandableGroup.bulk_to_python"
    /\ pc' = "response"
    /\ response' = Return(ContactExpandableGroup_bulk_to_python(request.contacts,
                                                                request.values))
    /\ UNCHANGED <<sites, view, request, soup>>

(* ------------------------------ inputs --------------------------------- *)


RelativeHref == Url("", "", <<"..", "askcfpb", ".", "123">>, "", "")

AbsoluteHref == Url("http", "e.org", <<"", "a", "..", "b">>, "q=1", "")

\* the hrefs of the one-link answer texts
HrefPool ==
    { RelativeHref, AbsoluteHref,
      Url("", "", <<"", "ask-cfpb", "">>, "", ""),
      Url("", "", <<"a", "", "b", "..">>, "", "top"),
      Url("", "", <<"">>, "", "top"),
      Url("", "", <<"">>, "q=1", ""),
      Url("", "cdn.org", <<"", "x">>, "", ""),
      Url("https", "e.org", <<"", "p">>, "", ""),
      Url("mailto", "", <<"x@e.org">>, "", "") }

\* the kinds of node of the answer texts of up to MaxNodes nodes
NodeKinds ==
    { Element("div", Missing), Element("a", Missing), Element("a", Some(EmptyUrl)),
      Element("a", Some(RelativeHref)), Element("a", Some(AbsoluteHref)),
      TextNode("t") }

\* kind[i] is the i-th node and par[i] its parent (0: top level); a parent
\* comes before its children, only a div holds elements, an anchor holds at
\* most texts, no two texts are adjacent and the text starts with an element
WellFormed(n, kind, par) ==
    /\ \A i \in 1..n :
          /\ par[i] < i
          /\ par[i] # 0 =>
                \/ kind[par[i]].name = "div"
                \/ kind[par[i]].name = "a" /\ kind[i].name = "#text"
    /\ n > 0 => kind[1].name # "#text"
    /\ \A i, j \in 1..n :
          (i < j /\ par[i] = par[j] /\ kind[i].name = "#text" /\ kind[j].name = "#text")
              => \E k \in (i + 1)..(j - 1) : par[k] = par[i]

RECURSIVE Markup(_, _, _, _)
\* the document of nodes i..n of the forest (kind, par), added to doc
Markup(doc, kind, par, i) ==
    IF i > Len(kind) THEN doc
    ELSE Markup(AppendChild(NewObject(doc, kind[i]), par[i] + 1, i + 1), kind, par, i + 1)

AnswerTexts ==
    { str(Markup(EmptySoup, f[1], f[2], 1)) :
        f \in UNION { { <<kind, par>> \in [1..n -> NodeKinds] \X [1..n -> 0..(n - 1)] :
                          WellFormed(n, kind, par) } : n \in 0..MaxNodes } }
    \cup { <<StartTag("p", Missing), Text("t"), StartTag("a", Some(h)), Text("t"),
             EndTag("a"), EndTag("p")>> : h \in HrefPool }

\* 'rate limits'
QueryRateLimits == <<"r", "a", "t", "e", " ", "l", "i", "m", "i", "t", "s">>

\* '  rate limits '
QueryPadded ==
    <<" ", " ", "r", "a", "t", "e", " ", "l", "i", "m", "i", "t", "s",
      " ">>

\* '  '
QueryBlank == <<" ", " ">>

\* 'category_exact:Credit Cards'
FacetCategory ==
    <<"c", "a", "t", "e", "g", "o", "r", "y", "_", "e", "x", "a", "c",
      "t", ":", "C", "r", "e", "d", "i", "t", " ", "C", "a", "r",
      "d", "s">>

\* 'category_exact:'
FacetCategoryEmpty ==
    <<"c", "a", "t", "e", "g", "o", "r", "y", "_", "e", "x", "a", "c",
      "t", ":">>

\* 'audience_exact:service+members'
FacetAudience ==
    <<"a", "u", "d", "i", "e", "n", "c", "e", "_", "e", "x", "a", "c",
      "t", ":", "s", "e", "r", "v", "i", "c", "e", "+", "m", "e",
      "m", "b", "e", "r", "s">>

\* 'audience_exact:'
FacetAudienceEmpty ==
    <<"a", "u", "d", "i", "e", "n", "c", "e", "_", "e", "x", "a", "c",
      "t", ":">>

\* 'tag_exact:pay day%20loan+Now'
FacetTag ==
    <<"t", "a", "g", "_", "e", "x", "a", "c", "t", ":", "p", "a", "y",
      " ", "d", "a", "y", "%", "2", "0", "l", "o", "a", "n", "+",
      "N", "o", "w">>

\* 'tag_exact:'
FacetTagEmpty == <<"t", "a", "g", "_", "e", "x", "a", "c", "t", ":">>

\* 'xcategory_exact:Mortgages'
FacetCategoryInside ==
    <<"x", "c", "a", "t", "e", "g", "o", "r", "y", "_", "e", "x", "a",
      "c", "t", ":", "M", "o", "r", "t", "g", "a", "g", "e", "s">>

\* 'tag_exact:category_exact:auto'
FacetTagCategory ==
    <<"t", "a", "g", "_", "e", "x", "a", "c", "t", ":", "c", "a", "t",
      "e", "g", "o", "r", "y", "_", "e", "x", "a", "c", "t", ":",
      "a", "u", "t", "o">>

\* 'category_exact:Auto.Loans'
FacetCategoryDotted ==
    <<"c", "a", "t", "e", "g", "o", "r", "y", "_", "e", "x", "a", "c",
      "t", ":", "A", "u", "t", "o", ".", "L", "o", "a", "n", "s">>

\* 'audience_exact:students+'
FacetAudiencePlusEnd ==
    <<"a", "u", "d", "i", "e", "n", "c", "e", "_", "e", "x", "a", "c",
      "t", ":", "s", "t", "u", "d", "e", "n", "t", "s", "+">>

\* 'sort:newest'
FacetOther == <<"s", "o", "r", "t", ":", "n", "e", "w", "e", "s", "t">>

\* the values of q drawn: none, '', blank, and queries
QueryPool == {<<>>, << <<>> >>, <<QueryBlank>>, <<QueryRateLimits>>, <<QueryPadded>>}

FacetPool ==
    { <<>>, FacetCategory, FacetCategoryEmpty, FacetAudience, FacetAudienceEmpty,
      FacetTag, FacetTagEmpty, FacetCategoryInside, FacetTagCategory, FacetOther,
      FacetCategoryDotted, FacetAudiencePlusEnd }

FacetLists == UNION { [1..n -> FacetPool] : n \in 0..MaxFacets }

Languages == {"en", "es"}

\* request.GET of the redirector's requests
QueryDicts == {[q |-> q, selected_facets |-> f] : q \in QueryPool, f \in FacetLists}

\* the info units drawn: with and without an image
InfoUnits == {[image |-> [upload |-> u]] : u \in {None, "image.png"}}

\* the values InfoUnitGroup.clean is called with
InfoUnitGroupValues ==
    { [format |-> f, heading |-> h, intro |-> i, info_units |-> u] :
        f \in format_choices \cup {""},
        h \in {None, "", "Heading"},
        i \in {"", "<p>Intro</p>"},
        u \in UNION { [1..n -> InfoUnits] : n \in 0..MaxUnits } }

\* the video ids drawn: '', '1V0Ax9OIc84', 'dQw4w9WgXc-', and two ids the
\* regex does not match, 'abc' and '1V0Ax9OIc8!'
VideoIds ==
    { <<>>,
      <<"1", "V", "0", "A", "x", "9", "O", "I", "c", "8", "4">>,
      <<"d", "Q", "w", "4", "w", "9", "W", "g", "X", "c", "-">>,
      <<"a", "b", "c">>,
      <<"1", "V", "0", "A", "x", "9", "O", "I", "c", "8", "!">> }

\* the values VideoPlayer.clean is called with
VideoPlayerValues ==
    { [video_id |-> v, thumbnail_image |-> t] :
        v \in VideoIds, t \in {None, "thumbnail.png"} }

\* Meta of the block: required is not set, True or False
VideoPlayerMetas == {[required |-> r] : r \in {Missing, Some(TRUE), Some(FALSE)}}

Post(parent, tags, categories, live) ==
    [parent |-> parent, tags |-> tags, categories |-> categories, live |-> live]

\* the filter pages drawn; the tags are 1 and 2
PostPool ==
    { Post("blog", {1}, {<<"blog", "At the CFPB">>}, TRUE),
      Post("blog", {1, 2}, {}, TRUE),
      Post("blog", {1, 2}, {}, FALSE),
      Post("newsroom", {2}, {<<"newsroom", "Op-Ed">>}, TRUE),
      Post("events", {1}, {}, TRUE),
      Post("archive-past-events", {1, 2}, {}, TRUE) }

ParentSlugs == {"blog", "newsroom", "events", "archive-past-events"}

\* the page trees drawn: up to MaxPosts filter pages, with every parent page
\* or without the archive of past events
PageTrees ==
    { [posts |-> p, slugs |-> s] :
        p \in UNION { [1..n -> PostPool] : n \in 0..MaxPosts },
        s \in {ParentSlugs, ParentSlugs \ {"archive-past-events"}} }

\* the pages drawn: the first filter page or a page that is none, with tags
Pages == {[id |-> i, tags |-> t] : i \in {0, 1}, t \in {{}, {1}, {1, 2}}}

\* the limits drawn: '0', '1', ' 2', '-1' and 'all'
Limits == {<<"0">>, <<"1">>, <<" ", "2">>, <<"-", "1">>, <<"a", "l", "l">>}

\* the values of the RelatedPosts block drawn
RelatedPostsValues ==
    { [relate_posts |-> b, relate_newsroom |-> n, relate_events |-> e,
       and_filtering |-> a, specific_categories |-> c, limit |-> l] :
        b \in BOOLEAN, n \in BOOLEAN, e \in BOOLEAN, a \in BOOLEAN,
        c \in {{}, {<<"blog", "At the CFPB">>}},
        l \in Limits }

\* 'what'
SlugWhat == <<"w", "h", "a", "t">>

\* 'old'
SlugOld == <<"o", "l", "d">>

\* 'what-en-123'
PageSlugEn == <<"w", "h", "a", "t", "-", "e", "n", "-", "1", "2", "3">>

\* 'what-es-123'
PageSlugEs == <<"w", "h", "a", "t", "-", "e", "s", "-", "1", "2", "3">>

\* '123'
AnswerId == <<"1", "2", "3">>

\* '0123'
AnswerIdZero == <<"0", "1", "2", "3">>

AnswerPageRecord(language, answer_base_id, live, redirect_to_page, slug, url) ==
    [language |-> language, answer_base_id |-> answer_base_id, live |-> live,
     redirect_to_page |-> redirect_to_page, slug |-> slug, url |-> url]

\* the page an answer page redirects to
NewPage == [url |-> "/ask-cfpb/new-en-456/"]

\* the answer pages drawn for answer 123: English ones and a Spanish one
AnswerPagePool ==
    { AnswerPageRecord("en", int(AnswerId), l, r, PageSlugEn, "/ask-cfpb/what-en-123/") :
        l \in BOOLEAN, r \in {Missing, Some(NewPage)} }
    \cup { AnswerPageRecord("es", int(AnswerId), TRUE, Missing, PageSlugEs,
                            "/es/obtener-respuestas/what-es-123/") }

\* the AnswerPage tables drawn: at most two pages
AnswerPageTables == {t \in SUBSET AnswerPagePool : Cardinality(t) <= 2}

\* the sharing site of the request, when there is one
SharingSites == {Missing, Some([site |-> Site(SecureRoot, FALSE)])}

\* what the sharing site's tree holds at request.path
RoutedPages ==
    {Missing, Some(AnswerPageRecord("en", int(AnswerId), FALSE, Missing, PageSlugEn,
                                    "/ask-cfpb/what-en-123/"))}

\* the requests view_answer is called with
ViewAnswerRequests ==
    { [slug |-> s, language |-> l, answer_id |-> a, pages |-> t,
       sharing_site |-> sh, routed |-> r] :
        s \in {SlugWhat, SlugOld}, l \in Languages, a \in {AnswerId, AnswerIdZero},
        t \in AnswerPageTables, sh \in SharingSites, r \in RoutedPages }

\* 'rate limit'
QueryRateLimit == <<"r", "a", "t", "e", " ", "l", "i", "m", "i", "t">>

ResultsPage(language, slug) ==
    [language |-> language, slug |-> slug, query |-> None, result_query |-> None,
     suggestion |-> None, answers |-> <<>>]

\* the AnswerResultsPage tables drawn: both results pages, the English one
\* alone, a Spanish page of another slug, none
ResultsPageTables ==
    { {ResultsPage("en", "ask-cfpb-search-results"), ResultsPage("es", "respuestas")},
      {ResultsPage("en", "ask-cfpb-search-results")},
      {ResultsPage("es", "ask-cfpb-search-results")},
      {} }

Hit == [autocomplete |-> "What is a rate limit?", url |-> "/ask-cfpb/what-en-123/",
        text |-> "A rate limit is a limit.", preview |-> "A rate limit"]

\* what suggest() leaves: no suggestion, or the search run again with one
Suggestions ==
    { [search_term |-> QueryRateLimits, queryset |-> <<>>, suggestion |-> None],
      [search_term |-> QueryRateLimit, queryset |-> <<Hit>>,
       suggestion |-> QueryRateLimit] }

\* the requests ask_search is called with
AskSearchRequests ==
    { [GET |-> [q |-> q, selected_facets |-> f], language |-> l, as_json |-> j,
       results_pages |-> t, hits |-> h, suggested |-> s] :
        q \in {<<>>, << <<>> >>, <<QueryBlank>>, <<QueryRateLimits>>},
        f \in {<<>>, << <<>> >>, <<FacetCategory>>, <<FacetOther, FacetTag>>},
        l \in Languages, j \in BOOLEAN, t \in ResultsPageTables,
        h \in {<<>>, <<Hit>>, <<Hit, Hit>>}, s \in Suggestions }

Contact(id, heading) == [id |-> id, heading |-> heading]

\* the Contact tables drawn; no table has a contact of id 3
ContactTables ==
    { {Contact(1, "Consumer Response"), Contact(2, "Media Relations")},
      {Contact(2, "Media Relations")} }

\* the raw expandables drawn
RawExpandables == {[contact |-> id] : id \in {1, 2, 3}}

\* the raw group values drawn: up to MaxExpandables expandables each
RawGroups ==
    { [heading |-> "Contacts", expandables |-> e] :
        e \in UNION { [1..n -> RawExpandables] : n \in 0..MaxExpandables } }

\* the lists of values bulk_to_python is called with
RawGroupLists == UNION { [1..n -> RawGroups] : n \in 0..MaxGroups }

(* ------------------------- the specification --------------------------- *)

NoResponse == [raised |-> "", returned |-> <<>>]

Init ==
    /\ pc = "request"
    /\ soup = NoSoup
    /\ response = NoResponse
    /\ \/ /\ view = "annotate_links"
          /\ sites \in SiteTables
          /\ request \in {[answer_text |-> a] : a \in AnswerTexts}
       \/ /\ view = "redirect_ask_search"
          /\ sites = {Site(LocalRoot, TRUE)}
          /\ request \in {[GET |-> g, language |-> l] : g \in QueryDicts, l \in Languages}
       \/ /\ view = "InfoUnitGroup.clean"
          /\ sites = {Site(LocalRoot, TRUE)}
          /\ request \in {[value |-> v] : v \in InfoUnitGroupValues}
       \/ /\ view = "VideoPlayer.clean"
          /\ sites = {Site(LocalRoot, TRUE)}
          /\ request \in {[value |-> v, meta |-> m] :
                             v \in VideoPlayerValues, m \in VideoPlayerMetas}
       \/ /\ view = "RelatedPosts.related_posts"
          /\ sites = {Site(LocalRoot, TRUE)}
          /\ request \in {[db |-> d, page |-> p, value |-> v] :
                             d \in PageTrees, p \in Pages, v \in RelatedPostsValues}
       \/ /\ view = "view_answer"
          /\ sites = {Site(LocalRoot, TRUE)}
          /\ request \in ViewAnswerRequests
       \/ /\ view = "ask_search"
          /\ sites = {Site(LocalRoot, TRUE)}
          /\ request \in AskSearchRequests
       \/ /\ view = "ContactExpandableGroup.bulk_to_python"
          /\ sites = {Site(LocalRoot, TRUE)}
          /\ request \in {[contacts |-> c, values |-> v] :
                             c \in ContactTables, v \in RawGroupLists}

Next ==
    \/ annotate_links
    \/ redirect_ask_search
    \/ InfoUnitGroup_clean
    \/ VideoPlayer_clean
    \/ related_posts
    \/ view_answer
    \/ ask_search
    \/ bulk_to_python

Spec == Init /\ [][Next]_vars

(* ------------------- properties of annotate_links ---------------------- *)

\* annotate_links has returned (annotated, footnotes)
AnnotateReturned ==
    pc = "response" /\ view = "annotate_links" /\ response.raised = ""

annotated == response.returned[1][1]

footnotes == response.returned[1][2]

\* an href attribute that is there and is not ''
HasDestination(href) == href # Missing /\ href # Some(EmptyUrl)

IsAnchorTag(tok) == tok.t = "start" /\ tok.name = "a"

IsLinkTag(tok) == IsAnchorTag(tok) /\ HasDestination(tok.href)

\* the start tags of the anchors of the answer text that have a non-empty
\* href, in the order of the text
LinkTags == SelectSeq(request.answer_text, IsLinkTag)

\* the objects the parser made of the answer text: the document, html and
\* body, and one object for each start tag and text
ParsedObjects ==
    LET IsNode(tok) == tok.t # "end" IN
    IF request.answer_text = <<>> THEN 1
    ELSE 3 + Len(SelectSeq(request.answer_text, IsNode))

\* the parsed anchors of soup (the parser numbers objects in document order)
Anchors == {i \in 1..ParsedObjects : soup.nodes[i].name = "a"}

Links == {a \in Anchors : HasDestination(soup.nodes[a].href)}

\* the place of link a among the links, in document order
Rank(a) == Cardinality({b \in Links : b <= a})

\* the 1-based position of object i among its parent's children
Place(i) ==
    CHOOSE j \in 1..Len(soup.contents[soup.parent[i]]) :
        soup.contents[soup.parent[i]][j] = i

\* object i is a <sup> holding just the text of number k
IsSupOf(i, k) ==
    /\ soup.nodes[i].name = "sup"
    /\ Len(soup.contents[i]) = 1
    /\ soup.nodes[soup.contents[i][1]] = TextNode(ToString(k))

\* C1: annotate_links returns as many footnotes as the answer text has
\* anchors with a non-empty href, their indices are 1..N in the order of the
\* list, and the k-th such anchor in document order is the one marked k.
C1_FootnotesCountLinks ==
    AnnotateReturned =>
        /\ Len(footnotes) = Len(LinkTags)
        /\ \A k \in 1..Len(footnotes) : footnotes[k][1] = k
        /\ \A a \in Links :
              \E j \in (Place(a) + 1)..Len(soup.contents[soup.parent[a]]) :
                  IsSupOf(soup.contents[soup.parent[a]][j], Rank(a))

C1_Witness ==
    /\ AnnotateReturned
    /\ Len(footnotes) = 2
    /\ \E a \in Anchors \ Links : \E b \in Links : a < b

RECURSIVE WithoutDeadAnchors(_)
\* the answer text without its anchors that have no href or an empty one
\* (an anchor of the answer texts holds at most a text)
WithoutDeadAnchors(tokens) ==
    IF tokens = <<>> THEN <<>>
    ELSE IF IsAnchorTag(Head(tokens)) /\ ~HasDestination(Head(tokens).href)
         THEN IF tokens[2].t = "end"
              THEN WithoutDeadAnchors(SubSeq(tokens, 3, Len(tokens)))
              ELSE WithoutDeadAnchors(SubSeq(tokens, 4, Len(tokens)))
         ELSE <<Head(tokens)>> \o WithoutDeadAnchors(Tail(tokens))

\* C2: an anchor whose href is missing or empty is left as it is (nothing is
\* put after it or into it) and uses up no index: the footnotes are those of
\* the answer text without these anchors.
C2_DeadAnchorsUntouched ==
    AnnotateReturned =>
        /\ \A a \in Anchors \ Links :
              /\ \A j \in 1..Len(soup.contents[a]) : soup.contents[a][j] <= ParsedObjects
              /\ Place(a) < Len(soup.contents[soup.parent[a]])
                    => soup.contents[soup.parent[a]][Place(a) + 1] <= ParsedObjects
              /\ soup.nodes[a] = bs(request.answer_text).nodes[a]
        /\ \A s \in sites : s.is_default_site =>
              footnotes = Annotated(s, WithoutDeadAnchors(request.answer_text)).footnotes

C2_Witness ==
    /\ AnnotateReturned
    /\ Len(footnotes) >= 1
    /\ \E a \in Anchors \ Links : \E b \in Links :
          /\ a < b
          /\ soup.parent[a] = soup.parent[b]
          /\ soup.nodes[a].href = Some(EmptyUrl)

\* C3: every anchor with a non-empty href is followed at once, as the next
\* child of its parent, by a <sup> whose text is the anchor's index, also
\* when several such anchors have the same parent.
C3_SupFollowsLink ==
    AnnotateReturned =>
        \A a \in Links :
            /\ Place(a) < Len(soup.contents[soup.parent[a]])
            /\ IsSupOf(soup.contents[soup.parent[a]][Place(a) + 1], Rank(a))

C3_Witness ==
    /\ AnnotateReturned
    /\ \E a, b \in Links :
          /\ a < b
          /\ soup.parent[a] = soup.parent[b]
          /\ Place(b) = Place(a) + 2

C5_NoDefaultSiteRaises ==
    (pc = "response" /\ view = "annotate_links") =>
        /\ response.raised = "RuntimeError" <=> ~(\E s \in sites : s.is_default_site)
        /\ response.raised = "RuntimeError" => response.returned = <<>>
        /\ response.raised \in {"", "RuntimeError"}

C5_Witness ==
    /\ pc = "response"
    /\ view = "annotate_links"
    /\ sites # {}
    /\ request.answer_text = <<>>
    /\ response = Raise("RuntimeError")

\* path holds no '.' and no '..' segment
NoDotSegments(path) == \A i \in 1..Len(path) : path[i] \notin {".", ".."}

\* C6: the k-th footnote pairs k with the href of the k-th anchor that has
\* one, resolved against the default site's root URL: an absolute href (with
\* its own scheme and host, or of another scheme) is kept as it is; a
\* relative one gets the root's scheme, a network-path one keeps its host
\* and path, any other gets the root's host and a rooted path without dot
\* segments, which is '/' followed by the href's path when that held none.
C6_FootnoteUrlResolved ==
    AnnotateReturned =>
        \A s \in sites : s.is_default_site =>
            \A k \in 1..Len(LinkTags) :
                LET href == LinkTags[k].href[1]
                    root == s.root_url
                    url  == footnotes[k][2]
                IN /\ k <= Len(footnotes)
                   /\ footnotes[k][1] = k
                   /\ (href.scheme # "" /\ (href.netloc # "" \/ href.scheme # root.scheme))
                         => url = href
                   /\ href.scheme = "" =>
                         /\ url.scheme = root.scheme
                         /\ url.fragment = href.fragment
                         /\ href.netloc # "" =>
                               /\ url.netloc = href.netloc
                               /\ url.path = href.path
                               /\ url.query = href.query
                         /\ href.netloc = "" =>
                               /\ url.netloc = root.netloc
                               /\ href.path = <<"">> => url.path = root.path
                               /\ href.path # <<"">> =>
                                     /\ Len(url.path) >= 2
                                     /\ url.path[1] = ""
                                     /\ NoDotSegments(url.path)
                                     /\ url.query = href.query
                                     /\ (NoDotSegments(href.path) /\ href.path[1] # "")
                                           => url.path = <<"">> \o href.path
                                     /\ (NoDotSegments(href.path) /\ href.path[1] = "")
                                           => url.path = href.path

C6_Witness ==
    /\ AnnotateReturned
    /\ Len(footnotes) = 2
    /\ LinkTags[1].href = Some(AbsoluteHref)
    /\ LinkTags[2].href = Some(RelativeHref)
    /\ footnotes[2] = <<2, Url("http", "localhost", <<"", "askcfpb", "123">>, "", "")>>

(* ----------------- properties of redirect_ask_search ------------------- *)

RedirectDone == pc = "response" /\ view = "redirect_ask_search"

\* the request has a q
HasQuery == request.GET.q # <<>>

query_text == Last(request.GET.q)

facets == request.GET.selected_facets

\* s is empty or holds only whitespace
Blank(s) == \A i \in 1..Len(s) : s[i] \in Whitespace

\* the outcome is a permanent redirect to path
PermanentRedirectTo(path) ==
    response = [raised |-> "",
                returned |-> <<[status_code |-> 301, location |-> path]>>]

\* C7: a query text that is there and not blank gives a permanent redirect
\* to /ask-cfpb/search/?q= followed by the query text without the whitespace
\* at its ends, whatever the facets and the language.
C7_QueryRedirectsToSearch ==
    (RedirectDone /\ HasQuery /\ ~Blank(query_text)) =>
        \E i, j \in 1..Len(query_text) :
            /\ i <= j
            /\ query_text[i] \notin Whitespace
            /\ query_text[j] \notin Whitespace
            /\ Blank(SubSeq(query_text, 1, i - 1))
            /\ Blank(SubSeq(query_text, j + 1, Len(query_text)))
            /\ PermanentRedirectTo(SearchQueryPath \o SubSeq(query_text, i, j))

C7_Witness ==
    /\ RedirectDone
    /\ request.GET.q = <<QueryPadded>>
    /\ facets = <<FacetCategory, FacetTag>>
    /\ request.language = "es"
    /\ PermanentRedirectTo(SearchQueryPath \o QueryRateLimits)

OtherEmptyQuery(q) == IF q = <<>> THEN << <<>> >> ELSE <<>>

\* C9: the empty query text and a missing q have the same outcome, for every
\* facet list and language.
C9_EmptyQueryAsMissing ==
    (RedirectDone /\ request.GET.q \in {<<>>, << <<>> >>}) =>
        response = redirect_ask_search_outcome(
                       [request.GET EXCEPT !.q = OtherEmptyQuery(request.GET.q)],
                       request.language)

C9_Witness ==
    /\ RedirectDone
    /\ request.GET.q = << <<>> >>
    /\ facets = <<FacetCategory>>
    /\ response.raised = ""
    /\ response.returned[1].location # SearchPath

\* there is no query text: q is missing or ''
NoQueryText == ~HasQuery \/ query_text = <<>>

\* C10 as claimed: without query text the outcome is not-found when the
\* facet list is empty or starts with an empty facet.
C10_NoFacetsNotFound ==
    (RedirectDone /\ NoQueryText /\ (facets = <<>> \/ facets[1] = <<>>))
        => response = Raise("Http404")

\* C10, amended: without query text the outcome is a permanent redirect to
\* /ask-cfpb/search/ when the facet list is empty or starts with an empty
\* facet.
C10_NoFacetsBareSearch ==
    (RedirectDone /\ NoQueryText /\ (facets = <<>> \/ facets[1] = <<>>))
        => PermanentRedirectTo(SearchPath)

C10_Witness ==
    /\ RedirectDone
    /\ ~HasQuery
    /\ facets = << <<>>, FacetCategory >>
    /\ PermanentRedirectTo(SearchPath)

\* the facet list is empty or starts with an empty facet
NoUsableFacets == facets = <<>> \/ facets[1] = <<>>

\* C11: a request without q, or with a blank one, and without usable facets
\* (the list is empty or starts with an empty facet) gets a permanent
\* redirect to the base page /ask-cfpb/search/.
C11_NoQueryNoFacetsBasePage ==
    (RedirectDone /\ (~HasQuery \/ Blank(query_text)) /\ NoUsableFacets)
        => /\ response.raised = ""
           /\ response.returned[1].status_code = 301
           /\ response.returned[1].location = SearchPath

C11_Witness ==
    /\ RedirectDone
    /\ request.GET.q = << <<>> >>
    /\ facets = << <<>>, FacetAudience >>
    /\ request.language = "es"
    /\ response.raised = ""
    /\ response.returned[1].location = SearchPath

\* the three facet types
FacetTypes == {category_facet, audience_facet, tag_facet}

\* facet_type is in facet at offset i
OccursAt(facet, facet_type, i) ==
    /\ i >= 0
    /\ i + Len(facet_type) <= Len(facet)
    /\ SubSeq(facet, i + 1, i + Len(facet_type)) = facet_type

\* facet carries a non-empty value for facet_type: it holds the type's
\* marker and a character outside the marker
HasValueOf(facet, facet_type) ==
    /\ \E i \in 0..Len(facet) : OccursAt(facet, facet_type, i)
    /\ \E k \in 1..Len(facet) :
          \A i \in 0..Len(facet) :
              OccursAt(facet, facet_type, i) => ~(i < k /\ k <= i + Len(facet_type))

\* some facet of the list carries a non-empty value for facet_type
SomeValueOf(facet_type) ==
    \E i \in 1..Len(facets) : HasValueOf(facets[i], facet_type)

\* C12: without query text and with a facet list whose first facet is not
\* empty, the outcome is not-found exactly when no facet of the list carries
\* a non-empty value for category_exact:, audience_exact: or tag_exact:.
C12_NotFoundIffNoFacetValue ==
    (RedirectDone /\ NoQueryText /\ ~NoUsableFacets) =>
        (response = Raise("Http404")
            <=> ~(\E facet_type \in FacetTypes : SomeValueOf(facet_type)))

C12_Witness ==
    /\ RedirectDone
    /\ NoQueryText
    /\ facets = <<FacetTagEmpty, FacetOther>>
    /\ response = Raise("Http404")

location == response.returned[1].location

IsCategoryRedirect ==
    /\ response.raised = ""
    /\ StartsWith(location, CategoryPathEn) \/ StartsWith(location, CategoryPathEs)

IsAudienceRedirect == response.raised = "" /\ StartsWith(location, AudiencePath)

IsTagRedirect ==
    /\ response.raised = ""
    /\ StartsWith(location, TagPathEn) \/ StartsWith(location, TagPathEs)

IsSearchRedirect == response.raised = "" /\ StartsWith(location, SearchPath)

\* the outcome follows the priority of the types: category, audience, tag
TypePriority ==
    /\ SomeValueOf(category_facet) => IsCategoryRedirect
    /\ (~SomeValueOf(category_facet) /\ SomeValueOf(audience_facet))
          => IsAudienceRedirect
    /\ IsTagRedirect =>
          /\ ~SomeValueOf(category_facet)
          /\ ~SomeValueOf(audience_facet)
          /\ SomeValueOf(tag_facet)

\* C13 as claimed: without query text the outcome follows the priority
\* category, audience, tag, whatever the order of the facet list.
C13_PriorityAnyList == (RedirectDone /\ NoQueryText) => TypePriority

\* C13, amended: without query text and with a facet list whose first facet
\* is not empty, the outcome follows the priority category, audience, tag,
\* whatever the order of the facets: a category redirect if a facet carries a
\* category value, else an audience redirect if one carries an audience
\* value, and a tag redirect only when neither is there.
C13_PriorityUsableList ==
    (RedirectDone /\ NoQueryText /\ ~NoUsableFacets) => TypePriority

C13_Witness ==
    /\ RedirectDone
    /\ NoQueryText
    /\ facets = <<FacetTag, FacetCategory>>
    /\ IsCategoryRedirect

\* position k of facet lies inside an occurrence of facet_type
Covered(facet, facet_type, k) ==
    \E i \in 0..Len(facet) :
        OccursAt(facet, facet_type, i) /\ i < k /\ k <= i + Len(facet_type)

RECURSIVE Uncovered(_, _, _)
\* the characters of facet from position k on that lie outside facet_type
Uncovered(facet, facet_type, k) ==
    IF k > Len(facet) THEN <<>>
    ELSE (IF Covered(facet, facet_type, k) THEN <<>> ELSE <<facet[k]>>)
             \o Uncovered(facet, facet_type, k + 1)

\* the value the first facet with a non-empty value for facet_type carries
FirstValueOf(facet_type) ==
    LET first == CHOOSE i \in 1..Len(facets) :
                     /\ HasValueOf(facets[i], facet_type)
                     /\ \A j \in 1..(i - 1) : ~HasValueOf(facets[j], facet_type)
    IN Uncovered(facets[first], facet_type, 1)

RECURSIVE Hyphenate(_)
\* value lower-cased, with every space and punctuation character a hyphen
Hyphenate(value) ==
    IF value = <<>> THEN <<>>
    ELSE (IF Head(value) \in WordChars THEN <<Lower(Head(value))>> ELSE <<"-">>)
             \o Hyphenate(Tail(value))

CategoryPath == IF request.language = "es" THEN CategoryPathEs ELSE CategoryPathEn

LettersAndDigits == (WordChars \ {"_"})

\* slug is value lower-cased with its letters and digits kept in order, made
\* of lower-case word characters and single hyphens, with no hyphen or
\* underscore at either end
SlugOf(slug, value) ==
    /\ \A k \in 1..Len(slug) : slug[k] \in WordChars \cup {"-"} /\ Lower(slug[k]) = slug[k]
    /\ \A k \in 1..(Len(slug) - 1) : ~(slug[k] = "-" /\ slug[k + 1] = "-")
    /\ slug # <<>> => (slug[1] \notin {"-", "_"} /\ Last(slug) \notin {"-", "_"})
    /\ Filter(slug, LettersAndDigits) = Filter(MapLower(value), LettersAndDigits)

\* a category facet decides the outcome
CategoryCase ==
    RedirectDone /\ NoQueryText /\ ~NoUsableFacets /\ SomeValueOf(category_facet)

\* C14 as claimed: the category redirect goes to the language's category
\* path for the value of the first category facet with a non-empty value,
\* lower-cased and with spaces and punctuation normalized to hyphens.
C14_CategorySlugHyphenated ==
    CategoryCase =>
        /\ response.raised = ""
        /\ location = CategoryPath
               \o StripChars(CollapseDashes(Hyphenate(FirstValueOf(category_facet))),
                             {"-", "_"})
               \o <<"/">>

\* C14, amended: the category redirect goes to /ask-cfpb/category-{slug}/
\* for 'en' and /es/obtener-respuestas/categoria-{slug}/ for 'es', where slug
\* is the slugified value of the first category facet with a non-empty
\* value: lower-cased, punctuation dropped, runs of spaces and hyphens turned
\* into one hyphen, hyphens and underscores stripped from the ends;
\* 'category_exact:Credit Cards' with 'en' gives
\* /ask-cfpb/category-credit-cards/.
C14_CategorySlug ==
    CategoryCase =>
        /\ response.raised = ""
        /\ StartsWith(location, CategoryPath)
        /\ Last(location) = "/"
        /\ LET slug == SubSeq(location, Len(CategoryPath) + 1, Len(location) - 1)
               value == FirstValueOf(category_facet)
           IN /\ SlugOf(slug, value)
              /\ slug = slugify(value)
        /\ (facets[1] = FacetCategory /\ request.language = "en")
              => location = CategoryPathEn \o <<"c","r","e","d","i","t","-","c","a","r","d","s","/">>

C14_Witness ==
    /\ CategoryCase
    /\ facets = <<FacetCategoryEmpty, FacetCategoryDotted>>
    /\ request.language = "es"
    /\ location = CategoryPathEs \o <<"a","u","t","o","l","o","a","n","s","/">>

\* no category facet decides, so the audience facets are looked at
AudienceCase ==
    /\ RedirectDone /\ NoQueryText /\ ~NoUsableFacets
    /\ ~SomeValueOf(category_facet)
    /\ SomeValueOf(audience_facet)

\* C15: an audience redirect happens only when no facet carries a category
\* value; its slug is the slugified audience value with every '+' read as a
\* space; and it goes to /ask-cfpb/audience-{slug}/ for 'en' and for 'es'.
C15_AudienceEnglishPath ==
    /\ (RedirectDone /\ NoQueryText /\ IsAudienceRedirect)
          => ~SomeValueOf(category_facet)
    /\ AudienceCase =>
          /\ response.raised = ""
          /\ location = AudiencePath
                 \o slugify(Replace(FirstValueOf(audience_facet), <<"+">>, <<" ">>))
                 \o <<"/">>

C15_Witness ==
    /\ AudienceCase
    /\ request.language = "es"
    /\ facets = <<FacetTag, FacetAudience>>
    /\ location = AudiencePath
           \o <<"s","e","r","v","i","c","e","-","m","e","m","b","e","r","s","/">>

RECURSIVE Underscore(_)
\* value with every space, every '%20' and every '+' an underscore
Underscore(value) ==
    IF value = <<>> THEN <<>>
    ELSE IF StartsWith(value, <<"%", "2", "0">>)
    THEN <<"_">> \o Underscore(SubSeq(value, 4, Len(value)))
    ELSE (IF Head(value) \in {" ", "+"} THEN <<"_">> ELSE <<Head(value)>>)
             \o Underscore(Tail(value))

TagPath == IF request.language = "es" THEN TagPathEs ELSE TagPathEn

\* neither a category nor an audience facet decides, so the tag facets are
\* looked at
TagCase ==
    /\ RedirectDone /\ NoQueryText /\ ~NoUsableFacets
    /\ ~SomeValueOf(category_facet)
    /\ ~SomeValueOf(audience_facet)
    /\ SomeValueOf(tag_facet)

\* C16: a tag redirect happens only when no facet carries a category or an
\* audience value; the tag is the raw value with every space, '%20' and '+'
\* an underscore and every other character as it was; and it goes to
\* /ask-cfpb/search-by-tag/{tag}/ for 'en' and to
\* /es/obtener-respuestas/buscar-por-etiqueta/{tag}/ for 'es'.
C16_TagUnderscored ==
    /\ (RedirectDone /\ NoQueryText /\ IsTagRedirect)
          => (~SomeValueOf(category_facet) /\ ~SomeValueOf(audience_facet))
    /\ TagCase =>
          /\ response.raised = ""
          /\ location = TagPath \o Underscore(FirstValueOf(tag_facet)) \o <<"/">>

C16_Witness ==
    /\ TagCase
    /\ request.language = "es"
    /\ facets = <<FacetOther, FacetTag>>
    /\ location = TagPathEs
           \o <<"p","a","y","_","d","a","y","_","l","o","a","n","_","N","o","w","/">>

\* facet holds nothing but markers of one facet type: a facet of that type
\* with an empty value
EmptyValued(facet) ==
    \E facet_type \in FacetTypes :
        /\ \E i \in 0..Len(facet) : OccursAt(facet, facet_type, i)
        /\ ~HasValueOf(facet, facet_type)

RECURSIVE WithoutEmptyValued(_)
\* the facet list without its facets of empty value
WithoutEmptyValued(list) ==
    IF list = <<>> THEN <<>>
    ELSE (IF EmptyValued(Head(list)) THEN <<>> ELSE <<Head(list)>>)
             \o WithoutEmptyValued(Tail(list))

\* the facets decide the outcome
FacetCase == RedirectDone /\ NoQueryText /\ ~NoUsableFacets

\* C17: a facet with an empty value never wins: the outcome is the one the
\* list gets with those facets taken out, so that later facets and
\* lower-priority types decide (['audience_exact:service+members',
\* 'category_exact:'] gives the audience redirect for 'service-members');
\* and the redirect of the winning type is made from the value of the first
\* facet of that type with a non-empty value.
C17_EmptyValueNeverWins ==
    FacetCase =>
        /\ response = redirect_by_facet(WithoutEmptyValued(facets), request.language)
        /\ IsCategoryRedirect =>
              /\ SomeValueOf(category_facet)
              /\ location = CategoryPath \o slugify(FirstValueOf(category_facet)) \o <<"/">>
        /\ IsAudienceRedirect =>
              /\ SomeValueOf(audience_facet)
              /\ location = AudiencePath
                     \o slugify(Replace(FirstValueOf(audience_facet), <<"+">>, <<" ">>))
                     \o <<"/">>
        /\ IsTagRedirect =>
              /\ SomeValueOf(tag_facet)
              /\ location = TagPath \o Underscore(FirstValueOf(tag_facet)) \o <<"/">>
        /\ facets = <<FacetAudience, FacetCategoryEmpty>> =>
              /\ response.raised = ""
              /\ location = AudiencePath
                     \o <<"s","e","r","v","i","c","e","-","m","e","m","b","e","r","s","/">>

C17_Witness ==
    /\ FacetCase
    /\ facets = <<FacetAudience, FacetCategoryEmpty>>
    /\ IsAudienceRedirect

\* the first facet of the list that holds facet_type has an empty value
FirstOccurrenceEmpty(facet_type) ==
    \E i \in 1..Len(facets) :
        /\ \E k \in 0..Len(facets[i]) : OccursAt(facets[i], facet_type, k)
        /\ ~HasValueOf(facets[i], facet_type)
        /\ \A j \in 1..(i - 1) :
              \A k \in 0..Len(facets[j]) : ~OccursAt(facets[j], facet_type, k)

\* the response is the redirect of facet_type
IsRedirectOf(facet_type) ==
    IF facet_type = category_facet THEN IsCategoryRedirect
    ELSE IF facet_type = audience_facet THEN IsAudienceRedirect
    ELSE IsTagRedirect

\* the destination of the redirect of facet_type for a raw value
DestinationOf(facet_type, value) ==
    IF facet_type = category_facet
    THEN CategoryPath \o slugify(value) \o <<"/">>
    ELSE IF facet_type = audience_facet
    THEN AudiencePath \o slugify(Replace(value, <<"+">>, <<" ">>)) \o <<"/">>
    ELSE TagPath \o Underscore(value) \o <<"/">>

\* the types that come before facet_type in the priority
HigherTypes(facet_type) ==
    IF facet_type = category_facet THEN {}
    ELSE IF facet_type = audience_facet THEN {category_facet}
    ELSE {category_facet, audience_facet}

\* it is the turn of facet_type, whose first occurrence has an empty value
\* and a later one a value
LaterOccurrenceCase(facet_type) ==
    /\ FacetCase
    /\ \A higher \in HigherTypes(facet_type) : ~SomeValueOf(higher)
    /\ FirstOccurrenceEmpty(facet_type)
    /\ SomeValueOf(facet_type)

Outcomes ==
    {outcome \in {"search", "category", "audience", "tag", "not-found"} :
        \/ outcome = "search" /\ IsSearchRedirect
        \/ outcome = "category" /\ IsCategoryRedirect
        \/ outcome = "audience" /\ IsAudienceRedirect
        \/ outcome = "tag" /\ IsTagRedirect
        \/ outcome = "not-found" /\ response = Raise("Http404")}

\* C19: for every query text (missing, blank or not), facet list (empty
\* lists and empty strings included) and language the redirector has an
\* outcome, and it is exactly one of the five: search, category, audience
\* or tag redirect, or not-found; no other error is raised.
C19_ExactlyOneOutcome ==
    /\ (view = "redirect_ask_search" /\ pc = "request") =>
          redirect_ask_search_outcome(request.GET, request.language).raised
              \in {"", "Http404"}
    /\ RedirectDone =>
          /\ Cardinality(Outcomes) = 1
          /\ response.raised \in {"", "Http404"}

C19_Witness ==
    /\ RedirectDone
    /\ request.GET.q = << <<" ", " ">> >>
    /\ facets = << <<>>, <<>> >>
    /\ Outcomes = {"search"}

\* C20: every redirect the redirector issues (bare search, search with
\* query, category, audience, tag) is permanent, with status 301, and names
\* a path; none is temporary.
C20_RedirectsPermanent ==
    (RedirectDone /\ response.raised = "") =>
        /\ response.returned[1].status_code = 301
        /\ StartsWith(location, <<"/">>)
        /\ \/ IsSearchRedirect
           \/ IsCategoryRedirect
           \/ IsAudienceRedirect
           \/ IsTagRedirect

C20_Witness ==
    /\ RedirectDone
    /\ NoQueryText
    /\ facets = <<FacetAudiencePlusEnd>>
    /\ IsAudienceRedirect
    /\ response.returned[1].status_code = 301

(* --------------------------- concurrent calls -------------------------- *)
\* Calls of the two views that run at the same time, one thread each.  In
\* this specification every variable but sites holds one value per call:
\* view[c] and request[c] are the call's view and input, pc[c] its position,
\* soup[c] its local variables and response[c] its outcome.  A call of
\* annotate_links takes one step for the lines before the loop, one step per
\* pass of the loop and one for its return statement.

Calls == 1..MaxCalls

\* the footnotes the calls have appended so far
AllFootnotes(states) ==
    LET RECURSIVE Sum(_)
        Sum(c) == IF c = 0 THEN 0 ELSE Len(states[c].st.footnotes) + Sum(c - 1)
    IN Sum(MaxCalls)

locals_shared_index(states, c) ==
    [states[c].st EXCEPT !.index = AllFootnotes(states) + 1]

\* lines 30-33: soup, footnotes and index are local variables of the call
locals(states, c) == states[c].st

NoLocals == [st |-> [soup |-> NoSoup, footnotes |-> <<>>, index |-> 1],
             links |-> <<>>, _site |-> Site(EmptyUrl, FALSE)]

\* lines 25-33: the site lookup, the parse, findAll and index = 1
call_annotate_links(c) ==
    /\ pc[c] = "request"
    /\ view[c] = "annotate_links"
    /\ IF get_default_site(sites) = {}
       THEN /\ pc' = [pc EXCEPT ![c] = "response"]
            /\ response' = [response EXCEPT ![c] = Raise("RuntimeError")]
            /\ soup' = soup
       ELSE LET soup0 == bs(request[c].answer_text)
            IN /\ pc' = [pc EXCEPT ![c] = "loop"]
               /\ soup' = [soup EXCEPT ![c] =
                      [st    |-> [soup |-> soup0, footnotes |-> <<>>, index |-> 1],
                       links |-> findAll(soup0, "a"),
                       _site |-> CHOOSE s \in get_default_site(sites) : TRUE]]
               /\ response' = response
    /\ UNCHANGED <<sites, view, request>>

\* lines 34-44: one pass of the loop over links
call_loop(c) ==
    /\ pc[c] = "loop"
    /\ soup[c].links # <<>>
    /\ soup' = [soup EXCEPT ![c] =
           [@ EXCEPT !.st = LoopBody(soup[c]._site, locals(soup, c), Head(soup[c].links)),
                     !.links = Tail(@)]]
    /\ UNCHANGED <<sites, view, request, pc, response>>

\* line 45: return (str(soup), footnotes)
call_return(c) ==
    /\ pc[c] = "loop"
    /\ soup[c].links = <<>>
    /\ pc' = [pc EXCEPT ![c] = "response"]
    /\ response' = [response EXCEPT ![c] =
           Return(<<str(locals(soup, c).soup), locals(soup, c).footnotes>>)]
    /\ UNCHANGED <<sites, view, request, soup>>

\* lines 169-239: redirect_ask_search holds no state between its lines
call_redirect_ask_search(c) ==
    /\ pc[c] = "request"
    /\ view[c] = "redirect_ask_search"
    /\ pc' = [pc EXCEPT ![c] = "response"]
    /\ response' = [response EXCEPT ![c] =
           redirect_ask_search_outcome(request[c].GET, request[c].language)]
    /\ UNCHANGED <<sites, view, request, soup>>

\* <a href="../askcfpb/./123">t</a><a href="http://e.org/a/../b?q=1">t</a>
TwoLinks ==
    <<StartTag("a", Some(RelativeHref)), Text("t"), EndTag("a"),
      StartTag("a", Some(AbsoluteHref)), Text("t"), EndTag("a")>>

\* <a></a><div><a href="http://e.org/a/../b?q=1"></a></div>
DeadAnchorThenLink ==
    <<StartTag("a", Missing), EndTag("a"), StartTag("div", Missing),
      StartTag("a", Some(AbsoluteHref)), EndTag("a"), EndTag("div")>>

\* the calls drawn: the view and its input
CallPool ==
    { [view |-> "annotate_links", request |-> [answer_text |-> TwoLinks]],
      [view |-> "annotate_links", request |-> [answer_text |-> DeadAnchorThenLink]],
      [view |-> "redirect_ask_search",
       request |-> [GET |-> [q |-> <<QueryPadded>>, selected_facets |-> <<>>],
                    language |-> "en"]],
      [view |-> "redirect_ask_search",
       request |-> [GET |-> [q |-> <<>>, selected_facets |-> <<FacetTag, FacetCategory>>],
                    language |-> "es"]] }

ConcurrentInit ==
    /\ sites \in SiteTables
    /\ \E call \in [Calls -> CallPool] :
          /\ view = [c \in Calls |-> call[c].view]
          /\ request = [c \in Calls |-> call[c].request]
    /\ pc = [c \in Calls |-> "request"]
    /\ soup = [c \in Calls |-> NoLocals]
    /\ response = [c \in Calls |-> NoResponse]

ConcurrentNext ==
    \E c \in Calls :
        \/ call_annotate_links(c)
        \/ call_loop(c)
        \/ call_return(c)
        \/ call_redirect_ask_search(c)

Concurrent == ConcurrentInit /\ [][ConcurrentNext]_vars

\* the outcome of the call c when it runs alone
Alone(c) ==
    IF view[c] = "redirect_ask_search"
    THEN redirect_ask_search_outcome(request[c].GET, request[c].language)
    ELSE IF get_default_site(sites) = {} THEN Raise("RuntimeError")
    ELSE LET st == Annotated(CHOOSE s \in get_default_site(sites) : TRUE,
                             request[c].answer_text)
         IN Return(<<str(st.soup), st.footnotes>>)

\* C21: under every interleaving of the calls, a call that has returned has
\* the outcome it has when it runs alone on its input and the Site table, a
\* call inside its loop still ends alone in that outcome whatever the other
\* calls did meanwhile, and the footnotes of every call are numbered from 1.
C21_CallsIndependent ==
    \A c \in Calls :
        /\ pc[c] = "response" => response[c] = Alone(c)
        /\ pc[c] = "loop" =>
              LET st == Loop(soup[c]._site, soup[c].st, soup[c].links)
              IN Return(<<str(st.soup), st.footnotes>>) = Alone(c)
        /\ (pc[c] = "response" /\ view[c] = "annotate_links" /\ response[c].raised = "")
              => \A k \in 1..Len(response[c].returned[1][2]) :
                     response[c].returned[1][2][k][1] = k

\* every call has annotated the same two links and returned
C21_Witness ==
    /\ \A c \in Calls : pc[c] = "response" /\ request[c] = [answer_text |-> TwoLinks]
    /\ \A c \in Calls : response[c].raised = ""
    /\ \A c \in Calls : Len(response[c].returned[1][2]) = 2
    /\ response[1] = response[2]

(* ----------------- properties of InfoUnitGroup.clean ------------------- *)

\* InfoUnitGroup.clean has ended
InfoUnitGroupCleaned == pc = "response" /\ view = "InfoUnitGroup.clean"

\* the intro is not empty and the heading is
IntroNoHeading ==
    /\ request.value.intro # ""
    /\ request.value.heading \in {None, ""}

\* the children of the value are valid: the format is one of the choices
ChildrenValid == request.value.format \in {"50-50", "33-33-33", "25-75"}

\* the ValidationError raised names the child key
ErrorOn(key) ==
    /\ response.raised = "ValidationError"
    /\ {error[1] : error \in response.params} = {key}

HeadingError ==
    /\ ErrorOn("heading")
    /\ response.message = "Validation error in InfoUnitGroup: intro with no heading"

SomeUnitNoImage ==
    \E i \in 1..Len(request.value.info_units) :
        request.value.info_units[i].image.upload = None

FormatError ==
    /\ ErrorOn("format")
    /\ response.message = "Validation error in InfoUnitGroup: 25-75 with no image"

\* the value has one of the formats other than 25-75
OtherFormat == request.value.format \in {"50-50", "33-33-33"}

VideoPlayerCleaned == pc = "response" /\ view = "VideoPlayer.clean"

\* the block is required: its Meta says so, or says nothing
RequiredBlock == request.meta.required # Some(FALSE)

EmptyVideoId == request.value.video_id = <<>>

ThumbnailSet == request.value.thumbnail_image # None

\* clean has raised its own ValidationError
VideoPlayerError ==
    /\ response.raised = "ValidationError"
    /\ response.message = "Validation error in VideoPlayer"

\* C24: with an empty video_id a required block fails with 'This field is
\* required.' on video_id and with no error on thumbnail_image; a block that
\* is not required fails with an error on thumbnail_image exactly when a
\* thumbnail image is set, and passes otherwise; with a video_id that is not
\* empty neither error is raised, whatever the thumbnail.
C24_VideoIdRequired ==
    VideoPlayerCleaned =>
        /\ (EmptyVideoId /\ RequiredBlock) =>
              /\ VideoPlayerError
              /\ response.params = {<<"video_id", "This field is required.">>}
        /\ (EmptyVideoId /\ ~RequiredBlock /\ ThumbnailSet) =>
              /\ VideoPlayerError
              /\ ErrorOn("thumbnail_image")
        /\ (EmptyVideoId /\ ~RequiredBlock /\ ~ThumbnailSet) =>
              response = Return(request.value)
        /\ ~EmptyVideoId => ~VideoPlayerError

C24_Witness ==
    /\ VideoPlayerCleaned
    /\ EmptyVideoId
    /\ request.meta.required = Missing
    /\ ThumbnailSet
    /\ VideoPlayerError
    /\ ErrorOn("video_id")

(* -------------- properties of RelatedPosts.related_posts --------------- *)

\* related_posts has returned its dict
RelatedPostsReturned ==
    pc = "response" /\ view = "RelatedPosts.related_posts" /\ response.raised = ""

posts == response.returned[1]

\* the keys of the types the value enables
EnabledKeys ==
    (IF request.value.relate_posts THEN {"Blog"} ELSE {})
        \cup (IF request.value.relate_newsroom THEN {"Newsroom"} ELSE {})
        \cup (IF request.value.relate_events THEN {"Events"} ELSE {})

\* C25: related_posts applies the limit to each type of post on its own:
\* every entry of the dict it returns holds at most limit posts, its keys are
\* keys of enabled types, no entry is empty, and the dict is empty when no
\* type is enabled.
C25_LimitPerType ==
    RelatedPostsReturned =>
        /\ DOMAIN posts \subseteq EnabledKeys
        /\ \A key \in DOMAIN posts :
              /\ posts[key] # <<>>
              /\ Len(posts[key]) <= int(request.value.limit)
        /\ EnabledKeys = {} => DOMAIN posts = {}

(* ----------------------- properties of view_answer --------------------- *)

\* view_answer has ended
AnswerViewed == pc = "response" /\ view = "view_answer"

\* the one answer page of the request's language and answer, when there is
\* exactly one
TheAnswerPages ==
    {p \in request.pages :
        p.language = request.language /\ p.answer_base_id = int(request.answer_id)}

OneAnswerPage == Cardinality(TheAnswerPages) = 1

TheAnswerPage == CHOOSE p \in TheAnswerPages : TRUE

\* the response is a redirect
IsRedirect ==
    /\ response.raised = ""
    /\ "status_code" \in DOMAIN response.returned[1]

\* the response is a served page
IsServed ==
    /\ response.raised = ""
    /\ "served" \in DOMAIN response.returned[1]

\* C26: for an answer page that is not live view_answer neither serves nor
\* redirects: the outcome is not-found, also when the page has a
\* redirect_to_page and when its slug is not the requested one.
C26_NotLiveNotFound ==
    (AnswerViewed /\ OneAnswerPage /\ ~TheAnswerPage.live) =>
        /\ response = Raise("Http404")
        /\ ~IsRedirect
        /\ ~IsServed

C26_Witness ==
    /\ AnswerViewed
    /\ OneAnswerPage
    /\ ~TheAnswerPage.live
    /\ TheAnswerPage.redirect_to_page # Missing
    /\ request.slug = SlugOld
    /\ response = Raise("Http404")

\* '<slug>-<language>-<answer_id>' of the request is the slug of the page
SlugMatches ==
    request.slug \o <<"-">> \o (IF request.language = "es" THEN <<"e", "s">>
                                ELSE <<"e", "n">>)
        \o <<"-">> \o request.answer_id = TheAnswerPage.slug

\* the one answer page of the request is live
LivePage == AnswerViewed /\ OneAnswerPage /\ TheAnswerPage.live

PermanentRedirect(url) ==
    /\ IsRedirect
    /\ response.returned[1].status_code = 301
    /\ response.returned[1].location = url

\* C27: view_answer serves only a page that is live, has no redirect_to_page
\* and whose slug is '<slug>-<language>-<answer_id>'; a live page with a
\* redirect_to_page gets a permanent redirect to that page's url, whatever
\* its slug, and one whose slug alone differs a permanent redirect to its
\* own url.  The page is served by itself when the request has no sharing
\* site, and otherwise by the sharing site's route for the request.
C27_ServeLiveCanonical ==
    /\ (AnswerViewed /\ IsServed) =>
          /\ LivePage
          /\ TheAnswerPage.redirect_to_page = Missing
          /\ SlugMatches
    /\ LivePage =>
          /\ TheAnswerPage.redirect_to_page # Missing =>
                PermanentRedirect(TheAnswerPage.redirect_to_page[1].url)
          /\ (TheAnswerPage.redirect_to_page = Missing /\ ~SlugMatches) =>
                PermanentRedirect(TheAnswerPage.url)
          /\ (TheAnswerPage.redirect_to_page = Missing /\ SlugMatches) =>
                IF request.sharing_site = Missing
                THEN response = Return([served |-> TheAnswerPage, by |-> "Page.serve"])
                ELSE \/ request.routed = Missing /\ response = Raise("Http404")
                     \/ /\ request.routed # Missing
                        /\ IsServed
                        /\ response.returned[1].by = "ServeView.serve"
                        /\ response.returned[1].site = request.sharing_site[1].site
                        /\ response.returned[1].served = request.routed[1]

C27_Witness ==
    /\ LivePage
    /\ TheAnswerPage.redirect_to_page = Missing
    /\ request.slug = SlugOld
    /\ request.language = "es"
    /\ PermanentRedirect("/es/obtener-respuestas/what-es-123/")

\* some facet of the list has the form facet_type followed by a value
SomeFacetOfForm(facet_type) ==
    \E i \in 1..Len(facets) :
        /\ StartsWith(facets[i], facet_type)
        /\ Len(facets[i]) > Len(facet_type)

\* C28: a facet is of a type only when it has the form of the type's marker
\* followed by a value: the redirect of a type is issued only when a facet
\* of the list starts with that marker, and a facet that holds the category
\* marker after other text ('xcategory_exact:Mortgages',
\* 'tag_exact:category_exact:auto') gets no category redirect.
C28_FacetFormPrefix ==
    (RedirectDone /\ NoQueryText) =>
        /\ \A facet_type \in FacetTypes :
              IsRedirectOf(facet_type) => SomeFacetOfForm(facet_type)
        /\ facets \in {<<FacetCategoryInside>>, <<FacetTagCategory>>}
              => ~IsCategoryRedirect

(* ----------------------- properties of ask_search ---------------------- *)

\* ask_search has ended
SearchViewed == pc = "response" /\ view = "ask_search"

\* the view has made the call
Called(call) == \E i \in 1..Len(response.calls) : response.calls[i] = call

\* the request carries a selected_facets parameter
HasFacetsParameter == request.GET.selected_facets # <<>>

\* q is missing or empty
NoSearchTerm == request.GET.q = <<>> \/ Last(request.GET.q) = <<>>

\* C29: a request with a selected_facets parameter goes to the legacy
\* redirector and to nothing else, with or without q, and has the
\* redirector's outcome; without selected_facets and with q missing or empty
\* no search is made and the results page, when there is one, is served with
\* empty query and result_query; a suggestion is asked for only after a
\* search that found nothing.
C29_FacetsFirstNoEmptySearch ==
    SearchViewed =>
        /\ HasFacetsParameter =>
              /\ response.calls = <<"redirect_ask_search">>
              /\ response.raised
                     = redirect_ask_search_outcome(request.GET, request.language).raised
              /\ response.returned
                     = redirect_ask_search_outcome(request.GET, request.language).returned
        /\ ~HasFacetsParameter => ~Called("redirect_ask_search")
        /\ (~HasFacetsParameter /\ NoSearchTerm) =>
              /\ ~Called("AskSearch")
              /\ ~Called("suggest")
              /\ response.raised = "" =>
                    /\ response.returned[1].served.query = <<>>
                    /\ response.returned[1].served.result_query = <<>>
        /\ Called("suggest") =>
              /\ request.hits = <<>>
              /\ response.calls[2] = "AskSearch"
              /\ response.calls[3] = "suggest"

C29_Witness ==
    /\ SearchViewed
    /\ request.GET.q = <<QueryRateLimits>>
    /\ request.GET.selected_facets = <<FacetCategory>>
    /\ request.results_pages = {}
    /\ response.calls = <<"redirect_ask_search">>
    /\ response.raised = ""
    /\ StartsWith(response.returned[1].location, SearchQueryPath)

(* ------ properties of ContactExpandableGroup.bulk_to_python ------------ *)

\* bulk_to_python has returned
BulkConverted == pc = "response" /\ view = "ContactExpandableGroup.bulk_to_python"

converted == response.returned[1]

\* the converted expandable is the conversion of the raw one: it holds the
\* contact of the raw one's id, or None when the table has none
ConversionOf(structvalue, raw) ==
    /\ structvalue.block = "ContactExpandable"
    /\ \/ /\ structvalue.value.contact # Missing
          /\ structvalue.value.contact[1] \in request.contacts
          /\ structvalue.value.contact[1].id = raw.contact
       \/ /\ structvalue.value.contact = Missing
          /\ \A c \in request.contacts : c.id # raw.contact

\* C30: bulk_to_python keeps the expandables of every group: the i-th group
\* it returns holds as many converted expandables as the i-th value had, in
\* their order, each the conversion of that value's own expandable at the
\* same place, also when some groups have no expandables.
C30_GroupsKeepExpandables ==
    BulkConverted =>
        /\ Len(converted) = Len(request.values)
        /\ \A i \in 1..Len(request.values) :
              /\ converted[i].block = "ContactExpandableGroup"
              /\ converted[i].value.heading = request.values[i].heading
              /\ Len(converted[i].value.expandables) = Len(request.values[i].expandables)
              /\ \A k \in 1..Len(request.values[i].expandables) :
                    ConversionOf(converted[i].value.expandables[k],
                                 request.values[i].expandables[k])

C30_Witness ==
    /\ BulkConverted
    /\ Len(request.values) = 2
    /\ request.values[1].expandables = <<[contact |-> 2], [contact |-> 3]>>
    /\ request.values[2].expandables = <<[contact |-> 1]>>
    /\ converted[2].value.expandables[1].value.contact
           = Some(Contact(1, "Consumer Response"))
    /\ converted[1].value.expandables[2].value.contact = Missing

====
